---- MODULE Spec2Model ----
(***************************************************************************)
(* Model of the project-dashboard read path (server/lib/filters.ts,        *)
(* server/lib/helpers.ts, server/routes/projects.tsx) over the projects    *)
(* table that the scan pipeline (scanner/scanner.ts) upserts into, and of   *)
(* the scan pipeline itself (scanner/project-data.ts, scanner/scanner.ts). *)
(*                                                                         *)
(* Text values are sequences of one-character strings, so that substring,  *)
(* LIKE and regular-expression matching are computed and not assumed.      *)
(* A nullable value is a sequence of length 0 (NULL) or 1 (the value).     *)
(* Instants are counted in ticks, TicksPerDay ticks to the day; the        *)
(* last-commit text is in canonical UTC form, so its first ten characters  *)
(* are the calendar day  t \div TicksPerDay.                               *)
(***************************************************************************)
EXTENDS Integers, Sequences, FiniteSets, TLC

VARIABLES store, now, nextId, call, ret, tree, lib, runs, triggers, reqs

vars == <<store, now, nextId, call, ret, tree, lib, runs, triggers, reqs>>

\* the variables of the scan pipeline: the repositories on disk, how the
\* installed git library reads the arguments of the counting log call,
\* and the scan runs
scanVars == <<tree, lib, runs>>

\* what the serving layer adds: whether the database carries the
\* updated_at triggers of the migration, and the requests in flight
serveVars == <<triggers, reqs>>

(* ------------------------------ bounds -------------------------------- *)

TicksPerDay == 2

MaxTick == 3

MaxRows == 2

MaxPage == 4

MaxExtra == 8

(* ------------------------------- text --------------------------------- *)

UpperChars == <<"A","B","C","D","E","F","G","H","I","J","K","L","M",
                "N","O","P","Q","R","S","T","U","V","W","X","Y","Z">>

LowerChars == <<"a","b","c","d","e","f","g","h","i","j","k","l","m",
                "n","o","p","q","r","s","t","u","v","w","x","y","z">>

Digits == {"0","1","2","3","4","5","6","7","8","9"}

Range(f) == {f[i] : i \in DOMAIN f}

\* String.prototype.toLowerCase on one ASCII character
LowerChar(c) ==
  IF \E i \in DOMAIN UpperChars : UpperChars[i] = c
    THEN LowerChars[CHOOSE i \in DOMAIN UpperChars : UpperChars[i] = c]
    ELSE c

ToLowerCase(s) == [i \in DOMAIN s |-> LowerChar(s[i])]

\* the regular-expression class \w
IsWordChar(c) ==
  c \in Range(UpperChars) \cup Range(LowerChars) \cup Digits \cup {"_"}

\* String.prototype.includes: literal, case-sensitive substring
Includes(s, sub) ==
  \E i \in 1..(Len(s) - Len(sub) + 1) : SubSeq(s, i, i + Len(sub) - 1) = sub

\* SQLite LIKE: % is any run of characters, _ any one character, ASCII
\* letters compare case-insensitively
RECURSIVE LikeMatch(_, _)
LikeMatch(pat, s) ==
  IF pat = <<>> THEN s = <<>>
  ELSE IF Head(pat) = "%"
    THEN LikeMatch(Tail(pat), s) \/ (s # <<>> /\ LikeMatch(pat, Tail(s)))
  ELSE /\ s # <<>>
       /\ (Head(pat) = "_" \/ LowerChar(Head(pat)) = LowerChar(Head(s)))
       /\ LikeMatch(Tail(pat), Tail(s))

(* ------------------------ SQL three-valued logic ---------------------- *)

Null == <<>>

Some(v) == <<v>>

SqlBool(b) == IF b THEN "true" ELSE "false"

SqlNot(a) == IF a = "null" THEN "null" ELSE SqlBool(a = "false")

SqlOr(a, b) ==
  IF a = "true" \/ b = "true" THEN "true"
  ELSE IF a = "null" \/ b = "null" THEN "null" ELSE "false"

SqlAnd(a, b) ==
  IF a = "false" \/ b = "false" THEN "false"
  ELSE IF a = "null" \/ b = "null" THEN "null" ELSE "true"

\* x LIKE pattern, NULL when x is NULL
SqlLike(x, pat) == IF x = Null THEN "null" ELSE SqlBool(LikeMatch(pat, x[1]))

\* COALESCE(x, '')
CoalesceEmpty(x) == IF x = Null THEN Some(<<>>) ELSE x

\* json_extract(metadata, '$.key'): NULL when the blob has no such key
JsonExtract(metadata, key) ==
  IF key \in DOMAIN metadata THEN Some(metadata[key]) ELSE Null

(* ------------------------------ literals ------------------------------ *)

sWip == <<"w","i","p">>

sTodo == <<"t","o","d","o">>

sFixme == <<"f","i","x","m","e">>

sInProgress == <<"i","n"," ","p","r","o","g","r","e","s","s">>

sWorkInProgress == <<"w","o","r","k"," ">> \o sInProgress

sLikelyDeployed == <<"l","i","k","e","l","y"," ","d","e","p","l","o","y","e","d">>

sUnknown == <<"u","n","k","n","o","w","n">>

\* '%' || lit || '%'
Wild(lit) == <<"%">> \o lit \o <<"%">>

(* --------------------------- status, in process ----------------------- *)

WipWords == {sWip, sTodo, sFixme, sInProgress}

\* WIP_PATTERN = /\b(wip|todo|fixme|in progress)\b/i  (every alternative
\* starts and ends with a word character, so \b is "no word character
\* on the outer side")
WIP_PATTERN(s) ==
  \E w \in WipWords : \E i \in 1..(Len(s) - Len(w) + 1) :
    /\ ToLowerCase(SubSeq(s, i, i + Len(w) - 1)) = w
    /\ (i = 1 \/ ~IsWordChar(s[i - 1]))
    /\ (i + Len(w) - 1 = Len(s) \/ ~IsWordChar(s[i + Len(w)]))

\* metadata?.key?.toLowerCase().includes(lit)
MetaIncludes(metadata, key, lit) ==
  /\ key \in DOMAIN metadata
  /\ Includes(ToLowerCase(metadata[key]), lit)

\* the recency fallback of computeStatus; age = now - lastCommitDate in
\* ticks, so daysSinceCommit < d  iff  age < d * TicksPerDay
RecencyStatus(age) ==
  IF age < 7 * TicksPerDay THEN "active"
  ELSE IF age < 30 * TicksPerDay THEN "recent"
  ELSE "paused"

\* computeStatus with the deployed rule tried before the wip rule
computeStatusDeployedFirst(project, t) ==
  LET lastCommitMsg == IF project.lastCommitMessage = Null THEN <<>>
                       ELSE ToLowerCase(project.lastCommitMessage[1])
  IN IF MetaIncludes(project.metadata, "deploymentStatus", sLikelyDeployed)
       THEN "deployed"
     ELSE IF \/ WIP_PATTERN(lastCommitMsg)
             \/ MetaIncludes(project.metadata, "currentState", sWorkInProgress)
       THEN "wip"
     ELSE RecencyStatus(t - project.lastCommitDate)

computeStatus(project, t) ==
  LET lastCommitMsg == IF project.lastCommitMessage = Null THEN <<>>
                       ELSE ToLowerCase(project.lastCommitMessage[1])
  IN IF \/ WIP_PATTERN(lastCommitMsg)
        \/ MetaIncludes(project.metadata, "currentState", sWorkInProgress)
       THEN "wip"
     ELSE IF MetaIncludes(project.metadata, "deploymentStatus", sLikelyDeployed)
       THEN "deployed"
     ELSE RecencyStatus(t - project.lastCommitDate)

(* --------------------------- status, in the store --------------------- *)

\* date(substr(last_commit_date, 1, 10))
CommitDay(row) == row.lastCommitDate \div TicksPerDay

\* date('now', '-d days')
DaysAgo(t, d) == (t \div TicksPerDay) - d

SqlBetween(x, lo, hi) == SqlBool(lo <= x /\ x <= hi)

\* the four LIKE tests on a (possibly coalesced) last-commit message
MsgLikeWip(msg) ==
  SqlOr(SqlOr(SqlOr(SqlLike(msg, Wild(<<"W","I","P">>)),
                    SqlLike(msg, Wild(<<"T","O","D","O">>))),
              SqlLike(msg, Wild(<<"F","I","X","M","E">>))),
        SqlLike(msg, Wild(sInProgress)))

\* the exclusions of the "active" branch, every operand under COALESCE
ActiveExclusions(row) ==
  SqlAnd(
    SqlNot(SqlOr(MsgLikeWip(CoalesceEmpty(row.lastCommitMessage)),
                 SqlLike(CoalesceEmpty(JsonExtract(row.metadata, "currentState")),
                         Wild(sWorkInProgress)))),
    SqlNot(SqlLike(CoalesceEmpty(JsonExtract(row.metadata, "deploymentStatus")),
                   Wild(sLikelyDeployed))))

WipCondition(row) ==
  SqlOr(MsgLikeWip(row.lastCommitMessage),
        SqlLike(JsonExtract(row.metadata, "currentState"), Wild(sWorkInProgress)))

DeployedCondition(row) ==
  SqlLike(JsonExtract(row.metadata, "deploymentStatus"), Wild(sLikelyDeployed))

\* the exclusions of the "recent" and "paused" branches, no COALESCE
BareExclusions(row) ==
  SqlAnd(SqlNot(WipCondition(row)), SqlNot(DeployedCondition(row)))

StatusNames ==
  {"active", "recent", "paused", "wip", "deployed", "active_this_week", "stalled"}

\* statusCondition(status) evaluated on one row; for any other status the
\* function returns undefined and queryProjects adds no condition
statusCondition(status, row, t) ==
  IF status \in {"active", "active_this_week"}
    THEN SqlAnd(SqlBool(CommitDay(row) >= DaysAgo(t, 7)), ActiveExclusions(row))
  ELSE IF status = "recent"
    THEN SqlAnd(SqlBetween(CommitDay(row), DaysAgo(t, 30), DaysAgo(t, 7)),
                BareExclusions(row))
  ELSE IF status = "paused"
    THEN SqlAnd(SqlBool(CommitDay(row) < DaysAgo(t, 30)), BareExclusions(row))
  ELSE IF status = "stalled"
    THEN SqlBetween(CommitDay(row), DaysAgo(t, 60), DaysAgo(t, 14))
  ELSE IF status = "wip" THEN WipCondition(row)
  ELSE IF status = "deployed" THEN DeployedCondition(row)
  ELSE "undefined"

(* --------------------------- filter conditions ------------------------ *)

PER_PAGE == 25

\* searchCondition(query): the query is spliced between two % unescaped
searchCondition(query, row) ==
  LET pattern == Wild(query)
  IN SqlOr(SqlOr(SqlOr(SqlLike(Some(row.name), pattern),
                       SqlLike(Some(row.path), pattern)),
                 SqlLike(row.lastCommitMessage, pattern)),
           SqlLike(JsonExtract(row.metadata, "description"), pattern))

\* EXISTS (SELECT 1 FROM json_each(json_extract(metadata,'$.tech_stack'))
\*         WHERE value = tech); json_each(NULL) has no rows
techStackCondition(tech, row) ==
  LET list == JsonExtract(row.metadata, "tech_stack")
  IN SqlBool(list # Null /\ \E i \in DOMAIN list[1] : list[1][i] = tech)

\* json_extract(metadata, '$.inferred_type') = type
typeCondition(type, row) ==
  LET v == JsonExtract(row.metadata, "inferred_type")
  IN IF v = Null THEN "null" ELSE SqlBool(v[1] = type)

ownershipCondition(ownership, row) ==
  IF ownership = "own" THEN SqlBool(row.isFork = FALSE)
  ELSE IF ownership = "forks" THEN SqlBool(row.isFork = TRUE)
  ELSE "undefined"

\* if (params.x): defined and not the empty string
TruthyText(opt) == opt # Null /\ opt[1] # <<>>

TruthyName(opt) == opt # Null /\ opt[1] # ""

\* the conditions array built by an else-if chain: only the first
\* present dimension is pushed
ConditionsFirstOnly(params) ==
  IF TruthyText(params.search)
    THEN <<[kind |-> "search", arg |-> params.search[1]]>>
  ELSE IF TruthyName(params.status) /\ params.status[1] \in StatusNames
    THEN <<[kind |-> "status", arg |-> params.status[1]]>>
  ELSE IF TruthyName(params.techStack)
    THEN <<[kind |-> "techStack", arg |-> params.techStack[1]]>>
  ELSE IF TruthyName(params.type)
    THEN <<[kind |-> "type", arg |-> params.type[1]]>>
  ELSE IF TruthyName(params.ownership) /\ params.ownership[1] \in {"own", "forks"}
    THEN <<[kind |-> "ownership", arg |-> params.ownership[1]]>>
  ELSE <<>>

\* the conditions array queryProjects builds, in push order
Conditions(params) ==
  (IF TruthyText(params.search)
     THEN <<[kind |-> "search", arg |-> params.search[1]]>> ELSE <<>>)
  \o (IF TruthyName(params.status) /\ params.status[1] \in StatusNames
     THEN <<[kind |-> "status", arg |-> params.status[1]]>> ELSE <<>>)
  \o (IF TruthyName(params.techStack)
     THEN <<[kind |-> "techStack", arg |-> params.techStack[1]]>> ELSE <<>>)
  \o (IF TruthyName(params.type)
     THEN <<[kind |-> "type", arg |-> params.type[1]]>> ELSE <<>>)
  \o (IF TruthyName(params.ownership) /\ params.ownership[1] \in {"own", "forks"}
     THEN <<[kind |-> "ownership", arg |-> params.ownership[1]]>> ELSE <<>>)

EvalCondition(c, row, t) ==
  IF c.kind = "search" THEN searchCondition(c.arg, row)
  ELSE IF c.kind = "status" THEN statusCondition(c.arg, row, t)
  ELSE IF c.kind = "techStack" THEN techStackCondition(c.arg, row)
  ELSE IF c.kind = "type" THEN typeCondition(c.arg, row)
  ELSE ownershipCondition(c.arg, row)

\* and(...conditions) on one row; no WHERE clause when the array is empty
RECURSIVE SqlAndAll(_, _, _)
SqlAndAll(conds, row, t) ==
  IF conds = <<>> THEN "true"
  ELSE SqlAnd(EvalCondition(Head(conds), row, t), SqlAndAll(Tail(conds), row, t))

\* the rows a SELECT ... WHERE where keeps: those on which it is true
WhereRows(conds, rows, t) ==
  {i \in DOMAIN rows : SqlAndAll(conds, rows[i], t) = "true"}

(* ------------------------------ ordering ------------------------------ *)

\* the characters the model's texts use, in ASCII order
Alphabet == <<" ", "%", "-", "/">>
            \o <<"0","1","2","3","4","5","6","7","8","9">> \o <<":">>
            \o UpperChars \o <<"_">> \o LowerChars

CharCode(c) == CHOOSE i \in DOMAIN Alphabet : Alphabet[i] = c

\* BINARY collation of two texts: a < b
RECURSIVE TextLess(_, _)
TextLess(a, b) ==
  IF b = <<>> THEN FALSE
  ELSE IF a = <<>> THEN TRUE
  ELSE IF Head(a) = Head(b) THEN TextLess(Tail(a), Tail(b))
  ELSE CharCode(Head(a)) < CharCode(Head(b))

asc(term) == [term EXCEPT !.dirs = Append(@, "asc")]

desc(term) == [term EXCEPT !.dirs = Append(@, "desc")]

Column(name) == [expr |-> name, dirs |-> <<>>]

\* buildOrderBy(sort, direction): dir = direction === "asc" ? asc : desc
buildOrderBy(sort, direction) ==
  IF sort = Some("name")
    THEN (IF direction = Some("asc") THEN asc(Column("name")) ELSE desc(Column("name")))
  ELSE IF sort = Some("commit_count")
    THEN (IF direction = Some("asc") THEN asc(Column("commit_count"))
          ELSE desc(Column("commit_count")))
  ELSE IF direction = Some("asc") THEN asc(Column("last_commit_date"))
  ELSE desc(Column("last_commit_date"))

\* CAST(COALESCE(json_extract(metadata, '$.commit_count_8m'), 0) AS INTEGER)
CommitCountKey(row) ==
  LET v == JsonExtract(row.metadata, "commit_count_8m")
  IN IF v = Null THEN 0 ELSE v[1]

\* the sort expression puts row a strictly before row b (ascending)
KeyLess(expr, a, b) ==
  IF expr = "name" THEN TextLess(a.name, b.name)
  ELSE IF expr = "commit_count" THEN CommitCountKey(a) < CommitCountKey(b)
  ELSE a.lastCommitDate < b.lastCommitDate

Precedes(term, a, b) ==
  IF term.dirs[1] = "asc" THEN KeyLess(term.expr, a, b) ELSE KeyLess(term.expr, b, a)

\* ORDER BY term with one direction keyword; the engine may return rows
\* that tie on the sort expression in any order
RECURSIVE Orderings(_, _, _)
Orderings(S, rows, term) ==
  IF S = {} THEN {<<>>}
  ELSE UNION {
         {<<i>> \o rest : rest \in Orderings(S \ {i}, rows, term)} :
         i \in {k \in S : \A j \in S : ~Precedes(term, rows[j], rows[k])} }

\* "ORDER BY x asc asc" and the like do not parse
OrderByParses(term) == Len(term.dirs) = 1

Min(a, b) == IF a < b THEN a ELSE b

\* LIMIT n OFFSET k that takes the offset as the first position kept
LimitOffsetFromZero(ord, n, k) ==
  SubSeq(ord, IF k = 0 THEN 1 ELSE k, Min(Len(ord), k + n))

\* LIMIT n OFFSET k on an ordered list of row positions
LimitOffset(ord, n, k) == SubSeq(ord, k + 1, Min(Len(ord), k + n))

(* ------------------------------ queryProjects ------------------------- *)

\* every result queryProjects(params) can return on the table rows at t
queryProjects(params, rows, t) ==
  LET conds == Conditions(params)
      matched == WhereRows(conds, rows, t)
      page == params.page
      offset == (page - 1) * PER_PAGE
      orderBy == buildOrderBy(params.sort, params.direction)
  IN { [results |-> [k \in DOMAIN LimitOffset(ord, PER_PAGE, offset) |->
                       rows[LimitOffset(ord, PER_PAGE, offset)[k]].id],
        totalCount |-> Cardinality(matched),
        page |-> page,
        perPage |-> PER_PAGE] : ord \in Orderings(matched, rows, orderBy) }

(* ------------------------------ sidebar ------------------------------- *)

\* the two count queries of loadSidebarData
loadSidebarData(rows, t) ==
  [activeThisWeekCount |->
     Cardinality({i \in DOMAIN rows : CommitDay(rows[i]) >= DaysAgo(t, 7)}),
   stalledCount |->
     Cardinality({i \in DOMAIN rows :
        SqlBetween(CommitDay(rows[i]), DaysAgo(t, 60), DaysAgo(t, 14)) = "true"})]

(* ------------------------ adjacent-record lookup ---------------------- *)

NoRow == 0

\* findAdjacentProjects: the id list is ordered by dir(buildOrderBy(sort,
\* direction)), i.e. the direction keyword is applied to a term that
\* already carries one; the outcomes are the pairs it can return, or the
\* store's syntax error
findAdjacentProjects(currentId, sort, direction, rows) ==
  LET dir(term) == IF direction = Some("asc") THEN asc(term) ELSE desc(term)
      orderBy == dir(buildOrderBy(sort, direction))
      Pair(ord) ==
        LET at == {k \in DOMAIN ord : rows[ord[k]].id = currentId}
        IN IF at = {} THEN [kind |-> "ok", prev |-> NoRow, next |-> NoRow]
           ELSE LET k == CHOOSE x \in at : TRUE
                IN [kind |-> "ok",
                    prev |-> IF k > 1 THEN rows[ord[k - 1]].id ELSE NoRow,
                    next |-> IF k < Len(ord) THEN rows[ord[k + 1]].id ELSE NoRow]
  IN IF ~OrderByParses(orderBy) THEN {[kind |-> "SqlError"]}
     ELSE {Pair(ord) : ord \in Orderings(DOMAIN rows, rows, orderBy)}

(* ------------------------- query-string parsing ----------------------- *)

DigitChars == <<"0","1","2","3","4","5","6","7","8","9">>

IsDigits(s) == s # <<>> /\ \A i \in DOMAIN s : s[i] \in Digits

RECURSIVE DecValue(_)
DecValue(s) ==
  IF s = <<>> THEN 0
  ELSE 10 * DecValue(SubSeq(s, 1, Len(s) - 1))
       + (CHOOSE d \in 0..9 : DigitChars[d + 1] = s[Len(s)])

\* z.coerce.number() = Number(raw) on an empty, a decimal-integer or any
\* other text: 0, the integer, NaN
CoerceNumber(s) ==
  IF s = <<>> THEN [nan |-> FALSE, v |-> 0]
  ELSE IF IsDigits(s) THEN [nan |-> FALSE, v |-> DecValue(s)]
  ELSE IF Head(s) = "-" /\ IsDigits(Tail(s)) THEN [nan |-> FALSE, v |-> 0 - DecValue(Tail(s))]
  ELSE [nan |-> TRUE, v |-> 0]

\* emptyToUndefined(z.enum(allowed).optional())
ParseEnum(raw, allowed) ==
  IF raw = Null \/ raw[1] = "" THEN [ok |-> TRUE, value |-> Null]
  ELSE [ok |-> raw[1] \in allowed, value |-> raw]

\* emptyToUndefined(z.string().optional())
ParseString(raw, empty) ==
  [ok |-> TRUE, value |-> IF raw = Null \/ raw[1] = empty THEN Null ELSE raw]

\* z.coerce.number().int().positive().optional().default(1)
ParsePage(raw) ==
  IF raw = Null THEN [ok |-> TRUE, value |-> 1]
  ELSE LET n == CoerceNumber(raw[1])
       IN [ok |-> ~n.nan /\ n.v > 0, value |-> n.v]

NoParams ==
  [search |-> Null, ownership |-> Null, status |-> Null, techStack |-> Null,
   type |-> Null, sort |-> Null, direction |-> Null, page |-> 1]

\* filterParamsSchema.safeParse(query)
safeParse(query) ==
  LET search == ParseString(query.search, <<>>)
      ownership == ParseEnum(query.ownership, {"own", "forks"})
      status == ParseEnum(query.status, StatusNames)
      techStack == ParseString(query.techStack, "")
      type == ParseString(query.type, "")
      sort == ParseEnum(query.sort, {"name", "last_commit_date", "commit_count"})
      direction == ParseEnum(query.direction, {"asc", "desc"})
      page == ParsePage(query.page)
  IN [success |-> /\ ownership.ok /\ status.ok /\ sort.ok
                  /\ direction.ok /\ page.ok,
      data |-> [search |-> search.value, ownership |-> ownership.value,
                status |-> status.value, techStack |-> techStack.value,
                type |-> type.value, sort |-> sort.value,
                direction |-> direction.value, page |-> page.value]]

\* GET /: params = parseResult.success ? parseResult.data : { page: 1 }
RouteParams(query) ==
  LET parseResult == safeParse(query)
  IN IF parseResult.success THEN parseResult.data ELSE NoParams

(* ------------------------- the projects table ------------------------- *)

\* the instant the model starts at: tick 0 of a day far enough from 0
Now0 == 100 * TicksPerDay

\* a row as INSERT creates it from the values of persistProjects; pinned
\* and last_viewed_at take the column defaults
NewRow(id, p, t) ==
  [id |-> id, path |-> p.path, name |-> p.name,
   lastCommitDate |-> p.lastCommitDate,
   lastCommitMessage |-> p.lastCommitMessage,
   metadata |-> p.metadata, isFork |-> p.isFork,
   pinned |-> FALSE, lastViewedAt |-> Null,
   createdAt |-> t, updatedAt |-> t]

\* DO UPDATE SET with the metadata column left out of the set list
UpdateRowWithoutMetadata(row, p, t) ==
  [row EXCEPT !.name = p.name, !.lastCommitDate = p.lastCommitDate,
              !.lastCommitMessage = p.lastCommitMessage,
              !.isFork = p.isFork, !.updatedAt = t]

\* the conflict handled as INSERT OR REPLACE: the row is written anew
\* and the columns outside the values take their defaults
UpdateRowAsReplace(row, p, t) == NewRow(row.id, p, t)

\* ON CONFLICT (path) DO UPDATE SET name, lastCommitDate,
\* lastCommitMessage, metadata, isFork, updatedAt
UpdateRow(row, p, t) ==
  [row EXCEPT !.name = p.name, !.lastCommitDate = p.lastCommitDate,
              !.lastCommitMessage = p.lastCommitMessage,
              !.metadata = p.metadata, !.isFork = p.isFork, !.updatedAt = t]

\* db.insert(projects).values(values).onConflictDoUpdate(...)
UpsertRows(rows, id, p, t) ==
  IF \E i \in DOMAIN rows : rows[i].path = p.path
    THEN [i \in DOMAIN rows |->
            IF rows[i].path = p.path THEN UpdateRow(rows[i], p, t) ELSE rows[i]]
    ELSE Append(rows, NewRow(id, p, t))

(* ----------------------- what the scanner extracts -------------------- *)

sActiveLabel == <<"a","c","t","i","v","e">>

sRecentLabel == <<"r","e","c","e","n","t","l","y"," ">> \o sActiveLabel

sDeployUnknown == <<"d","e","p","l","o","y","m","e","n","t"," ","s","t","a","t","u","s"," ">> \o sUnknown

msgWip == <<"W","I","P",":"," ","g","o">>

msgFix == <<"f","i","x"," ","b","u","g">>

msgPct == <<"5","0","%">>

\* the metadata blob extractMetadata returns, under the keys it writes;
\* deploymentStatus is left out when that probe failed
Metadata(description, currentState, techStack, inferredType, deploy, count) ==
  LET core == [description |-> description, currentState |-> currentState,
               techStack |-> techStack, inferredType |-> inferredType,
               commitCount8m |-> count]
  IN IF deploy = Null THEN core
     ELSE [k \in DOMAIN core \cup {"deploymentStatus"} |->
             IF k = "deploymentStatus" THEN deploy[1] ELSE core[k]]

Repos ==
  { [path |-> <<"/","a","p","p">>, name |-> <<"a","p","p">>],
    [path |-> <<"/","B","o","t">>, name |-> <<"B","o","t">>] }

\* three repositories' worth of extracted data: a wip commit three days
\* old with a deploy script; a plain commit six and a half days old; a
\* fork twenty days old whose deployment probe failed
Extracts ==
  { [lastCommitDate |-> Now0 - 3 * TicksPerDay,
     lastCommitMessage |-> Some(msgWip), isFork |-> FALSE,
     metadata |-> Metadata(<<"g","o"," ","a","p","i">>,
                           sWorkInProgress \o <<",", " ">> \o sActiveLabel,
                           <<"go">>, "go-app",
                           Some(sLikelyDeployed \o <<" ","(","D",")">>), 5)],
    [lastCommitDate |-> Now0 - 7 * TicksPerDay + 1,
     lastCommitMessage |-> Some(msgFix), isFork |-> FALSE,
     metadata |-> Metadata(<<"w","e","b">>, sActiveLabel,
                           <<"python", "django">>, "python-app",
                           Some(sDeployUnknown), 2)],
    [lastCommitDate |-> Now0 - 20 * TicksPerDay,
     lastCommitMessage |-> Some(msgPct), isFork |-> TRUE,
     metadata |-> Metadata(<<"B","o","t">>, sRecentLabel,
                           <<>>, "unknown", Null, 0)] }

ScannedProjects ==
  { [path |-> r.path, name |-> r.name, lastCommitDate |-> e.lastCommitDate,
     lastCommitMessage |-> e.lastCommitMessage, isFork |-> e.isFork,
     metadata |-> e.metadata] : r \in Repos, e \in Extracts }

(* ----------------------------- requests ------------------------------- *)

NoQuery ==
  [search |-> Null, ownership |-> Null, status |-> Null, techStack |-> Null,
   type |-> Null, sort |-> Null, direction |-> Null, page |-> Null]

\* the raw values a query string may carry for each parameter, valid,
\* empty and unrecognized ones
RawValues ==
  [search |-> {<<"B","U","G">>, <<"_">>, <<"%">>, <<>>},
   ownership |-> {"own", "forks", "mine", ""},
   status |-> StatusNames \cup {"bogus"},
   techStack |-> {"go", "django"},
   type |-> {"go-app"},
   sort |-> {"name", "commit_count", "last_commit_date", "xyz"},
   direction |-> {"asc", "desc"},
   page |-> {<<"1">>, <<"2">>, <<"0">>, <<"a","b","c">>}]

Dimensions == DOMAIN RawValues

With(query, k, v) == [query EXCEPT ![k] = Some(v)]

\* query strings with one more parameter than the given ones
Extend(qs) ==
  UNION { UNION { {With(q, k, v) : v \in RawValues[k]} : k \in Dimensions } : q \in qs }

\* query strings with at most two parameters present
Queries == {NoQuery} \cup Extend({NoQuery}) \cup Extend(Extend({NoQuery}))

Idle == [op |-> "idle"]

NoRet == [kind |-> "none"]

IsIdle == call.op = "idle"

RowWithId(rows, id) == {i \in DOMAIN rows : rows[i].id = id}

RowById(rows, id) == rows[CHOOSE i \in DOMAIN rows : rows[i].id = id]

(* ------------------------------ actions ------------------------------- *)

\* one iteration of persistProjects: the upsert of one scanned project
Upsert(p) ==
  /\ IsIdle
  /\ store' = UpsertRows(store, nextId, p, now)
  /\ nextId' = IF Len(store') > Len(store) THEN nextId + 1 ELSE nextId
  /\ call' = [op |-> "upsert", path |-> p.path]
  /\ ret' = NoRet
  /\ UNCHANGED now
  /\ UNCHANGED scanVars
  /\ UNCHANGED serveVars

\* GET /: parse the query string, run queryProjects and loadSidebarData;
\* the results table shows computeStatus(project) as each row's badge
GetIndex(query) ==
  /\ IsIdle
  /\ \E r \in queryProjects(RouteParams(query), store, now) :
       ret' = [kind |-> "index", code |-> 200, results |-> r.results,
               badges |-> [k \in DOMAIN r.results |->
                             computeStatus(RowById(store, r.results[k]), now)],
               totalCount |-> r.totalCount, page |-> r.page,
               perPage |-> r.perPage, sidebar |-> loadSidebarData(store, now)]
  /\ call' = [op |-> "index", query |-> query]
  /\ UNCHANGED <<store, now, nextId>>
  /\ UNCHANGED scanVars
  /\ UNCHANGED serveVars

\* GET /:id: 404 for an unknown id; otherwise stamp last_viewed_at, then
\* look up the neighbours under the sort of the query string; an error
\* of the lookup ends the request with a 500 after the stamp is written
GetShow(id, sort, direction) ==
  /\ IsIdle
  /\ call' = [op |-> "show", id |-> id, sort |-> sort, direction |-> direction]
  /\ IF RowWithId(store, id) = {}
       THEN /\ ret' = [kind |-> "show", code |-> 404]
            /\ UNCHANGED store
       ELSE /\ store' = [i \in DOMAIN store |->
                           IF store[i].id = id
                             THEN [store[i] EXCEPT !.lastViewedAt = Some(now)]
                             ELSE store[i]]
            /\ \E a \in findAdjacentProjects(
                          id,
                          IF sort = Null THEN Some("last_commit_date") ELSE sort,
                          IF direction = Null THEN Some("desc") ELSE direction,
                          store') :
                 ret' = IF a.kind = "SqlError"
                          THEN [kind |-> "show", code |-> 500]
                          ELSE [kind |-> "show", code |-> 200,
                                prev |-> a.prev, next |-> a.next]
  /\ UNCHANGED <<now, nextId>>
  /\ UNCHANGED scanVars
  /\ UNCHANGED serveVars

\* the response has been sent
Return ==
  /\ ~IsIdle
  /\ call' = Idle
  /\ ret' = NoRet
  /\ UNCHANGED <<store, now, nextId>>
  /\ UNCHANGED scanVars
  /\ UNCHANGED serveVars

\* the clock advances by one tick
Tick ==
  /\ IsIdle
  /\ now < Now0 + MaxTick
  /\ now' = now + 1
  /\ UNCHANGED <<store, nextId, call, ret>>
  /\ UNCHANGED scanVars
  /\ UNCHANGED serveVars

(* ------------------ generated tables for the pure parts --------------- *)

\* Number.prototype.toString on a natural number
RECURSIVE DecText(_)
DecText(n) ==
  IF n < 10 THEN <<DigitChars[n + 1]>>
  ELSE Append(DecText(n \div 10), DigitChars[(n % 10) + 1])

msgSwipe == <<"s","w","i","p","e">>

msgTodo == <<"T","o","D","o">>

\* one repository in every combination of last-commit message, work-state
\* narrative, deployment narrative and last-commit age that the status
\* rules distinguish
StatusProjects ==
  { [path |-> <<"/","a","p","p">>, name |-> <<"a","p","p">>,
     lastCommitDate |-> Now0 - age, lastCommitMessage |-> msg, isFork |-> FALSE,
     metadata |-> Metadata(<<"w","e","b">>, cs, <<>>, "unknown", ds, 0)] :
    msg \in {Null, Some(msgWip), Some(msgSwipe), Some(msgFix), Some(msgTodo)},
    cs \in {sUnknown, sWorkInProgress \o <<",", " ">> \o sActiveLabel},
    ds \in {Null, Some(sDeployUnknown), Some(sLikelyDeployed \o <<" ","(","D",")">>)},
    age \in {d * TicksPerDay - k : d \in {3, 7, 8, 14, 30, 31, 60, 61},
                                    k \in 0..MaxTick} }

StatusQueries == {NoQuery} \cup {With(NoQuery, "status", s) : s \in StatusNames}

\* n plain repositories r1..rn with distinct names and last-commit
\* instants, every third one a fork
PageRows(n) ==
  [i \in 1..n |->
     NewRow(i, [path |-> <<"/","r">> \o DecText(i), name |-> <<"r">> \o DecText(i),
                lastCommitDate |-> Now0 - i, lastCommitMessage |-> Some(msgFix),
                isFork |-> (i % 3 = 0),
                metadata |-> Metadata(<<"w","e","b">>, sActiveLabel, <<>>,
                                      "unknown", Some(sDeployUnknown), i)],
             Now0)]

PageQueries ==
  {With(With(NoQuery, "ownership", o), "page", DecText(p)) :
          o \in {"own", ""}, p \in 1..MaxPage}

(* ------------------------- fork classification ------------------------ *)

sGithubCom == <<"g","i","t","h","u","b",".","c","o","m">>

\* the text has lit at position i
StartsAt(s, i, lit) ==
  /\ i + Len(lit) - 1 <= Len(s)
  /\ SubSeq(s, i, i + Len(lit) - 1) = lit

\* where a greedy [^/]+ that starts at position k stops: at the first "/"
\* from k on, or past the end of the text
RunEnd(s, k) ==
  IF \E j \in k..Len(s) : s[j] = "/"
    THEN CHOOSE j \in k..Len(s) : s[j] = "/" /\ \A m \in k..(j - 1) : s[m] # "/"
    ELSE Len(s) + 1

\* /github\.com[:/]([^/]+)\// matches with "github.com" at position i
MatchesAt(s, i) ==
  LET sep == i + Len(sGithubCom)
  IN /\ StartsAt(s, i, sGithubCom)
     /\ sep <= Len(s)
     /\ s[sep] \in {":", "/"}
     /\ RunEnd(s, sep + 1) > sep + 1
     /\ RunEnd(s, sep + 1) <= Len(s)

\* remoteUrl.match(GITHUB_REMOTE_RE): no match, or match[1] of the
\* leftmost match; the expression is not anchored
GITHUB_REMOTE_RE(s) ==
  LET at == {i \in 1..Len(s) : MatchesAt(s, i)}
  IN IF at = {} THEN Null
     ELSE LET i == CHOOSE x \in at : \A y \in at : x <= y
              k == i + Len(sGithubCom) + 1
          IN Some(SubSeq(s, k, RunEnd(s, k) - 1))

\* detectIsFork(remoteUrl, githubUser); null, undefined and "" are falsy
detectIsFork(remoteUrl, githubUser) ==
  IF remoteUrl = Null \/ remoteUrl[1] = <<>> \/ githubUser = Null \/ githubUser[1] = <<>>
    THEN FALSE
  ELSE LET match == GITHUB_REMOTE_RE(remoteUrl[1])
       IN IF match = Null THEN FALSE
          ELSE ToLowerCase(match[1]) # ToLowerCase(githubUser[1])

sAlice == <<"a","l","i","c","e">>

sBob == <<"b","o","b">>

\* the two usual forms of a remote, from the host and the path on it
ScpRemote(host, path) == <<"g","i","t","@">> \o host \o <<":">> \o path

HttpsRemote(host, path) == <<"h","t","t","p","s",":","/","/">> \o host \o <<"/">> \o path

RemoteHosts == {sGithubCom, <<"g","i","t","l","a","b",".","c","o","m">>, <<"n","o","t","g","i","t","h","u","b",".","c","o","m">>}

\* paths on a host, each with its owner segment; the last one carries
\* the text github.com inside the path
RemotePaths ==
  { [owner |-> sAlice, text |-> <<"a","l","i","c","e","/","f","o","o",".","g","i","t">>],
    [owner |-> <<"A","l","i","c","e">>, text |-> <<"A","l","i","c","e","/","f","o","o">>],
    [owner |-> sBob, text |-> <<"b","o","b","/","f","o","o",".","g","i","t">>],
    [owner |-> <<"m","i","r","r","o","r","s">>, text |-> <<"m","i","r","r","o","r","s","/","g","i","t","h","u","b",".","c","o","m","/","a","l","i","c","e","/","f","o","o",".","g","i","t">>] }

\* the remotes detectIsFork is given: none, the empty text, and both forms
\* of every path on every host
ForkRemotes ==
  { [url |-> Null, host |-> <<>>, owner |-> <<>>],
    [url |-> Some(<<>>), host |-> <<>>, owner |-> <<>>] }
  \cup { [url |-> Some(ScpRemote(h, p.text)), host |-> h, owner |-> p.owner] :
         h \in RemoteHosts, p \in RemotePaths }
  \cup { [url |-> Some(HttpsRemote(h, p.text)), host |-> h, owner |-> p.owner] :
         h \in RemoteHosts, p \in RemotePaths }

\* the configured identities: none, empty, and names in several cases
ForkUsers ==
  {Null, Some(<<>>), Some(sAlice), Some(<<"A","l","i","c","e">>), Some(<<"A","L","I","C","E">>), Some(sBob)}

(* ----------------------- repositories on disk ------------------------- *)

\* days to the month in setMonth arithmetic
MonthDays == 30

EightMonths == 8 * MonthDays * TicksPerDay

\* git.log({ maxCount: 10 })
LogMaxCount == 10

Take(s, n) == SubSeq(s, 1, Min(Len(s), n))

\* [...new Set(list)]: first occurrences, in order
RECURSIVE Dedupe(_)
Dedupe(s) ==
  IF s = <<>> THEN <<>>
  ELSE LET front == Dedupe(SubSeq(s, 1, Len(s) - 1))
       IN IF s[Len(s)] \in Range(front) THEN front ELSE Append(front, s[Len(s)])

\* parts.join(sep)
RECURSIVE Join(_, _)
Join(parts, sep) ==
  IF parts = <<>> THEN <<>>
  ELSE IF Len(parts) = 1 THEN parts[1]
  ELSE parts[1] \o sep \o Join(Tail(parts), sep)

\* basename(repoPath): the text after the last "/"
Basename(path) ==
  LET slashes == {i \in DOMAIN path : path[i] = "/"}
  IN IF slashes = {} THEN path
     ELSE SubSeq(path, (CHOOSE i \in slashes : \A j \in slashes : j <= i) + 1, Len(path))

sLikelyDocker == sLikelyDeployed \o <<" ","(","h","a","s"," ","D","o","c","k","e","r","f","i","l","e",")">>

\* three repositories and a plain directory.  A repository is what the
\* probes of project-data.ts find in it when they do not fail: its
\* commits, latest first, its origin remote, and the files each probe
\* reads, given as that probe's result
RepoApp ==
  [path |-> <<"/","a","p","p">>, hasGit |-> TRUE,
   commits |-> << [date |-> Now0 - 3 * TicksPerDay, message |-> msgWip, author |-> "ann"],
                  [date |-> Now0 - 40 * TicksPerDay, message |-> msgFix, author |-> "bo"],
                  [date |-> Now0 - 250 * TicksPerDay, message |-> msgFix, author |-> "ann"] >>,
   remote |-> Some(ScpRemote(sGithubCom, <<"a","l","i","c","e","/","a","p","p",".","g","i","t">>)),
   todoParts |-> <<>>,
   referenceFiles |-> << [key |-> "root", files |-> <<"README.md">>] >>,
   description |-> <<"g","o"," ","a","p","i">>, techStack |-> <<"go">>,
   deploymentStatus |-> sLikelyDocker, nestedRepos |-> <<>>,
   plansCount |-> 2, aiDocsCount |-> 0, claudeDescription |-> Null]

RepoBot ==
  [path |-> <<"/","B","o","t">>, hasGit |-> TRUE,
   commits |-> << [date |-> Now0 - 20 * TicksPerDay, message |-> msgPct, author |-> "bo"] >>,
   remote |-> Some(HttpsRemote(sGithubCom, <<"B","o","b","/","B","o","t">>)),
   todoParts |-> << <<"1"," ","o","p","e","n"," ","t","a","s","k">> >>,
   referenceFiles |-> <<>>,
   description |-> <<"B","o","t">>, techStack |-> <<"ruby", "rails">>,
   deploymentStatus |-> sDeployUnknown, nestedRepos |-> <<"lib/inner">>,
   plansCount |-> 0, aiDocsCount |-> 1, claudeDescription |-> Some(<<"a"," ","b","o","t">>)]

\* git init and nothing else
RepoNew ==
  [path |-> <<"/","n","e","w">>, hasGit |-> TRUE, commits |-> <<>>, remote |-> Null,
   todoParts |-> <<>>, referenceFiles |-> <<>>,
   description |-> <<"N","e","w">>, techStack |-> <<>>,
   deploymentStatus |-> sDeployUnknown, nestedRepos |-> <<>>,
   plansCount |-> 0, aiDocsCount |-> 0, claudeDescription |-> Null]

\* a directory with commits' worth of files but no .git directory
DirDocs == [RepoBot EXCEPT !.path = <<"/","d","o","c","s">>, !.hasGit = FALSE]

(* ------------------------------ the probes ---------------------------- *)

Probes ==
  {"commitCount", "remote", "referenceFiles", "description", "techStack",
   "currentState", "deploymentStatus", "nestedRepos", "plansCount",
   "aiDocsCount", "claudeDescription"}

\* the prefix errorMsg gets at each probe's catch
ErrorPrefix ==
  [commitCount |-> "Commit count error", remote |-> "Remote error",
   referenceFiles |-> "Reference files error", description |-> "Description error",
   techStack |-> "Tech stack error", currentState |-> "State error",
   deploymentStatus |-> "Deployment error", nestedRepos |-> "Nested repos error",
   plansCount |-> "Plans count error", aiDocsCount |-> "AI docs count error",
   claudeDescription |-> "Claude description error"]

\* errorMsg(prefix, e) = `${prefix}: ${e.message}`
errorMsg(prefix, e) == [prefix |-> prefix, message |-> e]

\* the message of the error a failing probe throws
Eio == "EIO: i/o error"

\* how the installed git library reads the arguments of the counting
\* git.log call: --since=<day> bounds at that day's midnight or at the
\* current time of day on it, and from "" to "HEAD" is no range at all
\* or the range "...HEAD", which holds no commit
PlainLib == [sinceMidnight |-> TRUE, emptyRange |-> FALSE]

Libs == [sinceMidnight : BOOLEAN, emptyRange : BOOLEAN]

\* what fails around one call of extractProjectData: simpleGit(path)
\* throws; git.log({maxCount}) throws; the probes in fail throw
NoFailure == [throws |-> FALSE, logFails |-> FALSE, fail |-> {}]

\* the failures of one call, on one library
Env(failure, l) ==
  [throws |-> failure.throws, logFails |-> failure.logFails, fail |-> failure.fail,
   sinceMidnight |-> l.sinceMidnight, emptyRange |-> l.emptyRange]

\* WIP_RE = /WIP|TODO|FIXME|in progress/i, DONE_RE = /done|complete|finish|ship/i
WIP_RE(s) == \E w \in WipWords : Includes(ToLowerCase(s), w)

DONE_RE(s) ==
  \E w \in {<<"d","o","n","e">>, <<"c","o","m","p","l","e","t","e">>, <<"f","i","n","i","s","h">>, <<"s","h","i","p">>} : Includes(ToLowerCase(s), w)

\* commitRecencyLabel(lastCommitDate) at instant t
commitRecencyLabel(lastCommitDate, t) ==
  LET daysAgo == (t - lastCommitDate) \div TicksPerDay
  IN IF daysAgo < 7
       THEN <<"a","c","t","i","v","e"," ","(","c","o","m","m","i","t","t","e","d"," ">> \o DecText(daysAgo)
            \o (IF daysAgo # 1 THEN <<" ","d","a","y","s"," ","a","g","o",")">> ELSE <<" ","d","a","y"," ","a","g","o",")">>)
     ELSE IF daysAgo < 30
       THEN <<"r","e","c","e","n","t","l","y"," ","a","c","t","i","v","e"," ","(","c","o","m","m","i","t","t","e","d"," ">> \o DecText(daysAgo) \o <<" ","d","a","y","s"," ","a","g","o",")">>
     ELSE <<"p","a","u","s","e","d"," ","(","l","a","s","t"," ","c","o","m","m","i","t"," ">> \o DecText(daysAgo) \o <<" ","d","a","y","s"," ","a","g","o",")">>

\* inferCurrentState; todoParts is what parseTodoState returns
inferCurrentState(todoParts, lastCommitDate, lastCommitMessage, t) ==
  LET p1 == IF lastCommitMessage = Null \/ lastCommitMessage[1] = <<>> THEN todoParts
            ELSE IF WIP_RE(lastCommitMessage[1]) THEN Append(todoParts, sWorkInProgress)
            ELSE IF DONE_RE(lastCommitMessage[1])
              THEN Append(todoParts, <<"r","e","c","e","n","t","l","y"," ","c","o","m","p","l","e","t","e","d">>)
            ELSE todoParts
      p2 == Append(p1, commitRecencyLabel(lastCommitDate, t))
      text == Join(p2, <<","," ">>)
  IN IF text = <<>> THEN sUnknown ELSE text

TYPE_PRIORITY ==
  << <<"rails", "rails-app">>, <<"rails-app", "rails-app">>, <<"ruby", "ruby-app">>,
     <<"rust", "rust-app">>, <<"go", "go-app">>, <<"elixir", "elixir-app">>,
     <<"java", "java-app">>, <<"python", "python-app">>, <<"node", "node-app">>,
     <<"c-cpp", "c-cpp-app">> >>

inferProjectType(techStack) ==
  LET hits == {i \in DOMAIN TYPE_PRIORITY : TYPE_PRIORITY[i][1] \in Range(techStack)}
  IN IF hits = {} THEN "unknown"
     ELSE TYPE_PRIORITY[CHOOSE i \in hits : \A j \in hits : i <= j][2]

\* extractGitData: null without a latest commit
extractGitData(repo) ==
  LET all == Take(repo.commits, LogMaxCount)
  IN IF all = <<>> THEN Null
     ELSE Some([lastCommitDate |-> all[1].date,
                lastCommitMessage |-> all[1].message,
                lastCommitAuthor |-> all[1].author,
                recentCommits |-> [i \in DOMAIN all |->
                                     [date |-> all[i].date, message |-> all[i].message]],
                contributors |-> Dedupe([i \in DOMAIN all |-> all[i].author])])

\* errors after the catch of one probe
Caught(errors, probe, fail) ==
  IF probe \in fail THEN Append(errors, errorMsg(ErrorPrefix[probe], Eio)) ELSE errors

\* the object extractMetadata returns, as JSON keeps it: a key whose
\* value is undefined is not in it
MetadataObject(gitData, gitRemote, referenceFiles, description, techStack, currentState, deploymentStatus, nestedRepos, plansCount, aiDocsCount, claudeDescription, errors) ==
  LET keys == {"lastCommitAuthor", "recentCommits", "commitCount8m", "contributors",
               "description", "currentState", "techStack", "inferredType",
               "plansCount", "aiDocsCount", "claudeDescription"}
              \cup (IF gitRemote # Null THEN {"gitRemote"} ELSE {})
              \cup (IF Len(referenceFiles) > 0 THEN {"referenceFiles"} ELSE {})
              \cup (IF deploymentStatus # Null THEN {"deploymentStatus"} ELSE {})
              \cup (IF Len(nestedRepos) > 0 THEN {"nestedRepos"} ELSE {})
              \cup (IF Len(errors) > 0 THEN {"errors"} ELSE {})
  IN [k \in keys |->
        CASE k = "lastCommitAuthor" -> gitData.lastCommitAuthor
          [] k = "recentCommits" -> gitData.recentCommits
          [] k = "commitCount8m" -> 0
          [] k = "contributors" -> gitData.contributors
          [] k = "gitRemote" -> gitRemote[1]
          [] k = "referenceFiles" -> referenceFiles
          [] k = "description" -> description
          [] k = "currentState" -> currentState
          [] k = "techStack" -> techStack
          [] k = "inferredType" -> inferProjectType(techStack)
          [] k = "deploymentStatus" -> deploymentStatus[1]
          [] k = "nestedRepos" -> nestedRepos
          [] k = "plansCount" -> plansCount
          [] k = "aiDocsCount" -> aiDocsCount
          [] k = "claudeDescription" -> claudeDescription
          [] k = "errors" -> errors]

\* extractMetadata that collects its probes' errors in a list of its own
extractMetadataOwnErrors(repo, name, gitData, gitRemote, errors, t, fail) ==
  LET Val(probe, value, default) == IF probe \in fail THEN default ELSE value
      e1 == Caught(<<>>, "referenceFiles", fail)
      e2 == Caught(e1, "description", fail)
      e3 == Caught(e2, "techStack", fail)
      e4 == Caught(e3, "currentState", fail)
      e5 == Caught(e4, "deploymentStatus", fail)
      e6 == Caught(e5, "nestedRepos", fail)
      e7 == Caught(e6, "plansCount", fail)
      e8 == Caught(e7, "aiDocsCount", fail)
      e9 == Caught(e8, "claudeDescription", fail)
  IN MetadataObject(
       gitData, gitRemote,
       Val("referenceFiles", repo.referenceFiles, <<>>),
       Val("description", repo.description, name),
       Val("techStack", repo.techStack, <<>>),
       Val("currentState",
           inferCurrentState(repo.todoParts, gitData.lastCommitDate,
                             Some(gitData.lastCommitMessage), t),
           sUnknown),
       Val("deploymentStatus", Some(repo.deploymentStatus), Null),
       Val("nestedRepos", repo.nestedRepos, <<>>),
       Val("plansCount", repo.plansCount, 0),
       Val("aiDocsCount", repo.aiDocsCount, 0),
       Val("claudeDescription", repo.claudeDescription, Null),
       e9)

\* extractMetadata: nine probes, each in its own try/catch that appends
\* to the caller's errors list and leaves the probe's output at its
\* initial value
extractMetadata(repo, name, gitData, gitRemote, errors, t, fail) ==
  LET Val(probe, value, default) == IF probe \in fail THEN default ELSE value
      e1 == Caught(errors, "referenceFiles", fail)
      e2 == Caught(e1, "description", fail)
      e3 == Caught(e2, "techStack", fail)
      e4 == Caught(e3, "currentState", fail)
      e5 == Caught(e4, "deploymentStatus", fail)
      e6 == Caught(e5, "nestedRepos", fail)
      e7 == Caught(e6, "plansCount", fail)
      e8 == Caught(e7, "aiDocsCount", fail)
      e9 == Caught(e8, "claudeDescription", fail)
  IN MetadataObject(
       gitData, gitRemote,
       Val("referenceFiles", repo.referenceFiles, <<>>),
       Val("description", repo.description, name),
       Val("techStack", repo.techStack, <<>>),
       Val("currentState",
           inferCurrentState(repo.todoParts, gitData.lastCommitDate,
                             Some(gitData.lastCommitMessage), t),
           sUnknown),
       Val("deploymentStatus", Some(repo.deploymentStatus), Null),
       Val("nestedRepos", repo.nestedRepos, <<>>),
       Val("plansCount", repo.plansCount, 0),
       Val("aiDocsCount", repo.aiDocsCount, 0),
       Val("claudeDescription", repo.claudeDescription, Null),
       e9)

\* the calendar day a hard-coded cutoff names
sinceDateFixed(t) == (Now0 - EightMonths) \div TicksPerDay

\* cutoffDate = new Date(); setMonth(getMonth() - 8); the day of its
\* toISOString()
sinceDate(t) == (t - EightMonths) \div TicksPerDay

\* countLog.total of git.log({from: "", to: "HEAD", "--since": day})
CountLogTotal(commits, day, t, env) ==
  LET bound == day * TicksPerDay + (IF env.sinceMidnight THEN 0 ELSE t % TicksPerDay)
  IN IF env.emptyRange THEN 0
     ELSE Cardinality({i \in DOMAIN commits : commits[i].date >= bound})

\* extractProjectData(repoPath, githubUser) at instant t: it throws,
\* returns null, or returns a ScannedProject
extractProjectData(repo, githubUser, t, env) ==
  IF ~repo.hasGit THEN [kind |-> "null"]
  ELSE IF env.throws THEN [kind |-> "throw"]
  ELSE IF env.logFails \/ extractGitData(repo) = Null THEN [kind |-> "null"]
  ELSE
    LET name == Basename(repo.path)
        gitData == extractGitData(repo)[1]
        commitCount8m == IF "commitCount" \in env.fail THEN 0
                         ELSE CountLogTotal(repo.commits, sinceDate(t), t, env)
        e1 == Caught(<<>>, "commitCount", env.fail)
        gitRemote == IF "remote" \in env.fail \/ repo.remote = Null
                        \/ repo.remote[1] = <<>>
                       THEN Null ELSE repo.remote
        e2 == Caught(e1, "remote", env.fail)
        isFork == detectIsFork(gitRemote, githubUser)
        metadata == extractMetadata(repo, name, gitData, gitRemote, e2, t, env.fail)
    IN [kind |-> "project",
        project |->
          [path |-> repo.path, name |-> name,
           lastCommitDate |-> gitData.lastCommitDate,
           lastCommitMessage |-> Some(gitData.lastCommitMessage),
           isFork |-> isFork,
           metadata |-> [metadata EXCEPT !.commitCount8m = commitCount8m]]]

(* ------------------------------ scan runs ----------------------------- *)

RunIds == {"A", "B"}

NoTree == {}

\* ScanOptions after scanOptionsSchema: three command lines
ScanOptionSets ==
  { [cutoffDays |-> 240, dryRun |-> FALSE, githubUser |-> Some(sAlice)],
    [cutoffDays |-> 365, dryRun |-> FALSE, githubUser |-> Some(sBob)],
    [cutoffDays |-> 240, dryRun |-> TRUE, githubUser |-> Null] }

\* the non-dry command lines among them
RescanOptionSets == {o \in ScanOptionSets : ~o.dryRun}

ZeroResult == [saved |-> 0, skipped |-> 0, errored |-> 0, total |-> 0]

\* a run of scan(options) that has not started.  log holds the mark the
\* run printed for each repository and each save; after holds the runs
\* that had returned when this one started
IdleRun ==
  [pc |-> "idle", options |-> Null, cutoffDate |-> 0, repoPaths |-> <<>>, i |-> 1,
   scannedProjects |-> <<>>, j |-> 1, result |-> ZeroResult, log |-> <<>>,
   summary |-> FALSE, returned |-> Null, after |-> {}]

NoRuns == [r \in RunIds |-> IdleRun]

\* scan, lines 197-199: cutoffDate = now - cutoffDays days
startScan(options, t, after) ==
  [IdleRun EXCEPT !.pc = "discover", !.options = Some(options),
                  !.cutoffDate = t - options.cutoffDays * TicksPerDay,
                  !.after = after]

\* Array.prototype.sort on paths: by code unit
RECURSIVE SortPaths(_)
SortPaths(S) ==
  IF S = {} THEN <<>>
  ELSE LET first == CHOOSE p \in S : \A q \in S : ~TextLess(q, p)
       IN <<first>> \o SortPaths(S \ {first})

\* discoverRepos(root): the directories that hold a .git directory, sorted
discoverRepos(repos) == SortPaths({d.path : d \in {x \in repos : x.hasGit}})

RepoAt(repos, path) == CHOOSE d \in repos : d.path = path

\* where scan would go after processRepos if the dry-run flag were not
\* consulted
AfterProcessWithoutDryRun(run) ==
  IF run.i <= Len(run.repoPaths) THEN "process"
  ELSE IF Len(run.scannedProjects) > 0 THEN "persist"
  ELSE "summary"

\* where scan goes after processRepos: persistProjects runs only in a
\* non-dry run with at least one scanned project
AfterProcess(run) ==
  IF run.i <= Len(run.repoPaths) THEN "process"
  ELSE IF ~run.options[1].dryRun /\ Len(run.scannedProjects) > 0 THEN "persist"
  ELSE "summary"

AfterPersist(run) ==
  IF run.j <= Len(run.scannedProjects) THEN "persist" ELSE "summary"

\* scan, lines 210-219, when discoverRepos resolves to repoPaths
discovered(run, repoPaths) ==
  LET next == [run EXCEPT !.repoPaths = repoPaths,
                          !.result = [ZeroResult EXCEPT !.total = Len(repoPaths)]]
  IN [next EXCEPT !.pc = AfterProcess(next)]

Mark(run, path, mark) == [run EXCEPT !.log = Append(@, [path |-> path, mark |-> mark])]

\* one iteration of processRepos that leaves the loop when the
\* extraction throws
processReposStopOnError(run, x) ==
  LET path == run.repoPaths[run.i]
      next == [run EXCEPT !.i = @ + 1]
      out ==
        IF x.kind = "throw"
          THEN Mark([run EXCEPT !.i = Len(run.repoPaths) + 1, !.result.errored = @ + 1],
                    path, "error")
        ELSE IF x.kind = "null"
          THEN Mark([next EXCEPT !.result.skipped = @ + 1], path, "invalid/no commits")
        ELSE IF x.project.lastCommitDate < run.cutoffDate
          THEN Mark([next EXCEPT !.result.skipped = @ + 1], path, "too old")
        ELSE Mark([next EXCEPT !.scannedProjects = Append(@, x.project)], path, "ok")
  IN [out EXCEPT !.pc = AfterProcess(out)]

\* one iteration of processRepos whose cutoff test also turns away a
\* last commit made at the cutoff instant
processReposCutoffInclusive(run, x) ==
  LET path == run.repoPaths[run.i]
      next == [run EXCEPT !.i = @ + 1]
      out ==
        IF x.kind = "throw"
          THEN Mark([next EXCEPT !.result.errored = @ + 1], path, "error")
        ELSE IF x.kind = "null"
          THEN Mark([next EXCEPT !.result.skipped = @ + 1], path, "invalid/no commits")
        ELSE IF x.project.lastCommitDate <= run.cutoffDate
          THEN Mark([next EXCEPT !.result.skipped = @ + 1], path, "too old")
        ELSE Mark([next EXCEPT !.scannedProjects = Append(@, x.project)], path, "ok")
  IN [out EXCEPT !.pc = AfterProcess(out)]

\* one iteration of the loop of processRepos, on the outcome x of
\* extractProjectData for repoPaths[i]
processRepos(run, x) ==
  LET path == run.repoPaths[run.i]
      next == [run EXCEPT !.i = @ + 1]
      out ==
        IF x.kind = "throw"
          THEN Mark([next EXCEPT !.result.errored = @ + 1], path, "error")
        ELSE IF x.kind = "null"
          THEN Mark([next EXCEPT !.result.skipped = @ + 1], path, "invalid/no commits")
        ELSE IF x.project.lastCommitDate < run.cutoffDate
          THEN Mark([next EXCEPT !.result.skipped = @ + 1], path, "too old")
        ELSE Mark([next EXCEPT !.scannedProjects = Append(@, x.project)], path, "ok")
  IN [out EXCEPT !.pc = AfterProcess(out)]

\* one iteration of persistProjects whose catch does not count the
\* rejected upsert
persistProjectsUncounted(run, ok) ==
  LET path == run.scannedProjects[run.j].path
      next == [run EXCEPT !.j = @ + 1]
      out == IF ok THEN Mark([next EXCEPT !.result.saved = @ + 1], path, "saved")
             ELSE Mark(next, path, "save failed")
  IN [out EXCEPT !.pc = AfterPersist(out)]

\* one iteration of the loop of persistProjects: the upsert resolved
\* (ok) or rejected
persistProjects(run, ok) ==
  LET path == run.scannedProjects[run.j].path
      next == [run EXCEPT !.j = @ + 1]
      out == IF ok THEN Mark([next EXCEPT !.result.saved = @ + 1], path, "saved")
             ELSE Mark([next EXCEPT !.result.errored = @ + 1], path, "save failed")
  IN [out EXCEPT !.pc = AfterPersist(out)]

\* printSummary(scannedProjects, result); return result
printSummary(run) ==
  [run EXCEPT !.pc = "done", !.summary = TRUE, !.returned = Some(run.result)]

\* the cases of one extraction a scan run meets
ScanEnvs ==
  { NoFailure,
    [NoFailure EXCEPT !.throws = TRUE],
    [NoFailure EXCEPT !.logFails = TRUE],
    [NoFailure EXCEPT !.fail = {"deploymentStatus"}] }

\* the cases two runs side by side meet
RescanEnvs ==
  { NoFailure,
    [NoFailure EXCEPT !.fail = {"deploymentStatus"}] }

\* the waits between scan runs: a day, nine months
Waits == {TicksPerDay, 9 * MonthDays * TicksPerDay}

LastInstant == Now0 + 9 * MonthDays * TicksPerDay + TicksPerDay

Resting(r) == runs[r].pc \in {"idle", "done", "rejected"}

\* scan(options) is called
StartScan(r, options) ==
  /\ runs[r].pc = "idle"
  /\ runs' = [runs EXCEPT ![r] =
                startScan(options, now, {q \in RunIds : runs[q].pc = "done"})]
  /\ UNCHANGED <<store, now, nextId, call, ret, tree, lib>>
  /\ UNCHANGED serveVars

\* await discoverRepos(root) resolves
Discover(r) ==
  /\ runs[r].pc = "discover"
  /\ runs' = [runs EXCEPT ![r] = discovered(@, discoverRepos(tree))]
  /\ UNCHANGED <<store, now, nextId, call, ret, tree, lib>>
  /\ UNCHANGED serveVars

\* await discoverRepos(root) rejects: nothing in scan catches it
DiscoverFails(r) ==
  /\ runs[r].pc = "discover"
  /\ runs' = [runs EXCEPT ![r].pc = "rejected"]
  /\ UNCHANGED <<store, now, nextId, call, ret, tree, lib>>
  /\ UNCHANGED serveVars

\* processRepos handles the next repository
ProcessRepo(r, envs) ==
  /\ runs[r].pc = "process"
  /\ \E env \in envs :
       runs' = [runs EXCEPT ![r] =
                  processRepos(@, extractProjectData(
                                    RepoAt(tree, runs[r].repoPaths[runs[r].i]),
                                    runs[r].options[1].githubUser, now, Env(env, lib)))]
  /\ UNCHANGED <<store, now, nextId, call, ret, tree, lib>>
  /\ UNCHANGED serveVars

\* persistProjects upserts the next scanned project, in one statement
PersistProject(r) ==
  /\ runs[r].pc = "persist"
  /\ store' = UpsertRows(store, nextId, runs[r].scannedProjects[runs[r].j], now)
  /\ nextId' = IF Len(store') > Len(store) THEN nextId + 1 ELSE nextId
  /\ runs' = [runs EXCEPT ![r] = persistProjects(@, TRUE)]
  /\ UNCHANGED <<now, call, ret, tree, lib>>
  /\ UNCHANGED serveVars

\* the upsert of the next scanned project rejects
PersistFails(r) ==
  /\ runs[r].pc = "persist"
  /\ runs' = [runs EXCEPT ![r] = persistProjects(@, FALSE)]
  /\ UNCHANGED <<store, now, nextId, call, ret, tree, lib>>
  /\ UNCHANGED serveVars

\* the summary is printed and the counts are returned
PrintSummary(r) ==
  /\ runs[r].pc = "summary"
  /\ runs' = [runs EXCEPT ![r] = printSummary(@)]
  /\ UNCHANGED <<store, now, nextId, call, ret, tree, lib>>
  /\ UNCHANGED serveVars

\* time passes while no scan is running
Wait(d) ==
  /\ \A r \in RunIds : Resting(r)
  /\ now + d <= LastInstant
  /\ now' = now + d
  /\ UNCHANGED <<store, nextId, call, ret, tree, lib, runs>>
  /\ UNCHANGED serveVars

(* ---------------------- a scan over a stored table -------------------- *)

\* a repository whose last commit is 240 days old at Now0, to the tick
RepoEdge ==
  [RepoBot EXCEPT !.path = <<"/","e","d","g","e">>,
                  !.commits = << [date |-> Now0 - 240 * TicksPerDay,
                                  message |-> msgFix, author |-> "bo"] >>]

\* a repository whose last commit is 300 days old at Now0
RepoOld ==
  [RepoBot EXCEPT !.path = <<"/","o","l","d">>,
                  !.commits = << [date |-> Now0 - 300 * TicksPerDay,
                                  message |-> msgFix, author |-> "ann"] >>]

\* a repository that has been removed from the disk since
RepoGone == [RepoBot EXCEPT !.path = <<"/","g","o","n","e">>]

StoredTree == {RepoApp, RepoEdge, RepoOld, RepoNew}

\* the instant of the earlier scan run, ten days before Now0
Earlier == Now0 - 10 * TicksPerDay

\* the repository as it was at instant t
RepoAsOf(repo, t) ==
  [repo EXCEPT !.commits = SelectSeq(@, LAMBDA c : c.date <= t)]

\* the row the earlier run inserted for a repository
EarlierRow(id, repo) ==
  NewRow(id,
         extractProjectData(RepoAsOf(repo, Earlier), Some(sAlice), Earlier,
                            Env(NoFailure, PlainLib)).project,
         Earlier)

\* the table an earlier run left, with what the serving layer wrote
\* since: /app pinned and viewed, /old as inserted, /gone viewed
StoredBefore ==
  << [EarlierRow(1, RepoApp) EXCEPT !.pinned = TRUE,
                                    !.lastViewedAt = Some(Earlier + TicksPerDay)],
     EarlierRow(2, RepoOld),
     [EarlierRow(3, RepoGone) EXCEPT !.lastViewedAt = Some(Earlier + 1)] >>

(* ----------------------- the pure parts, as calls --------------------- *)

\* detectIsFork is applied to a remote and an identity
DetectIsFork(remote, githubUser) ==
  /\ IsIdle
  /\ call' = [op |-> "detectIsFork", remote |-> remote, githubUser |-> githubUser]
  /\ ret' = [kind |-> "fork", value |-> detectIsFork(remote.url, githubUser)]
  /\ UNCHANGED <<store, now, nextId>>
  /\ UNCHANGED scanVars
  /\ UNCHANGED serveVars

\* every set of failing probes, alone; every other case, with no probe
\* failing or with one
ExtractEnvs ==
  { Env([NoFailure EXCEPT !.fail = F], PlainLib) : F \in SUBSET Probes }
  \cup { Env([throws |-> th, logFails |-> lf, fail |-> F], l) :
         th \in BOOLEAN, lf \in BOOLEAN, F \in {{}, {"commitCount"}}, l \in Libs }

ExtractRepos == {RepoApp, RepoBot, RepoNew, DirDocs}

\* extractProjectData is applied to a directory
ExtractProjectData(repo, githubUser, env) ==
  /\ IsIdle
  /\ call' = [op |-> "extract", repo |-> repo, githubUser |-> githubUser, env |-> env]
  /\ ret' = [kind |-> "extract", value |-> extractProjectData(repo, githubUser, now, env)]
  /\ UNCHANGED <<store, now, nextId>>
  /\ UNCHANGED scanVars
  /\ UNCHANGED serveVars

(* --------------------------- requests in flight ----------------------- *)

\* the requests the server may be handling at one time
ReqIds == {"P", "Q", "R"}

\* a request that has not arrived.  seen is the pinned flag the pin
\* handler read; results and totalCount are what the two queries of
\* queryProjects returned, and matched is the number of rows that
\* matched in the table the page query read
NoReq ==
  [pc |-> "idle", op |-> "none", id |-> 0, seen |-> FALSE, code |-> 0,
   query |-> NoQuery, results |-> <<>>, resultsRead |-> FALSE, matched |-> 0,
   totalCount |-> 0, countRead |-> FALSE]

NoReqs == [q \in ReqIds |-> NoReq]

\* UPDATE projects SET pinned = ? WHERE id = ?, and after it the trigger
\* trg_projects_updated_at where the migration installed it
UpdatePinned(rows, id, pinned, t, trg) ==
  [i \in DOMAIN rows |->
     IF rows[i].id = id
       THEN [rows[i] EXCEPT !.pinned = pinned,
                            !.updatedAt = IF trg THEN t ELSE @]
       ELSE rows[i]]

\* the select of the page: every list of ids it can return
pageQuery(params, rows, t) == {r.results : r \in queryProjects(params, rows, t)}

\* select count(*) under the same where clause
countQuery(params, rows, t) == Cardinality(WhereRows(Conditions(params), rows, t))

\* POST /:id/pin up to its first await: findFirst reads id and pinned;
\* 404 when there is no such row
PinRead(q, id) ==
  /\ reqs[q].pc = "idle"
  /\ reqs' = [reqs EXCEPT ![q] =
                IF RowWithId(store, id) = {}
                  THEN [NoReq EXCEPT !.op = "pin", !.id = id, !.pc = "done", !.code = 404]
                  ELSE [NoReq EXCEPT !.op = "pin", !.id = id, !.pc = "update",
                                     !.seen = RowById(store, id).pinned]]
  /\ UNCHANGED <<store, now, nextId, call, ret, triggers>>
  /\ UNCHANGED scanVars

\* POST /:id/pin from the update on: pinned is set to the negation of
\* the value read, and the request is redirected
PinUpdate(q) ==
  /\ reqs[q].pc = "update"
  /\ store' = UpdatePinned(store, reqs[q].id, ~reqs[q].seen, now, triggers)
  /\ reqs' = [reqs EXCEPT ![q].pc = "done", ![q].code = 302]
  /\ UNCHANGED <<now, nextId, call, ret, triggers>>
  /\ UNCHANGED scanVars

\* queryProjects(params) up to Promise.all: both queries are issued
ListStart(q, query) ==
  /\ reqs[q].pc = "idle"
  /\ reqs' = [reqs EXCEPT ![q] = [NoReq EXCEPT !.op = "list", !.pc = "queries",
                                               !.query = query]]
  /\ UNCHANGED <<store, now, nextId, call, ret, triggers>>
  /\ UNCHANGED scanVars

\* the page query runs on the table as it is now
ListPage(q) ==
  /\ reqs[q].pc = "queries" /\ ~reqs[q].resultsRead
  /\ \E results \in pageQuery(RouteParams(reqs[q].query), store, now) :
       reqs' = [reqs EXCEPT ![q].results = results, ![q].resultsRead = TRUE,
                            ![q].matched = countQuery(RouteParams(reqs[q].query), store, now)]
  /\ UNCHANGED <<store, now, nextId, call, ret, triggers>>
  /\ UNCHANGED scanVars

\* the count query runs on the table as it is now
ListCount(q) ==
  /\ reqs[q].pc = "queries" /\ ~reqs[q].countRead
  /\ reqs' = [reqs EXCEPT ![q].totalCount = countQuery(RouteParams(reqs[q].query), store, now),
                          ![q].countRead = TRUE]
  /\ UNCHANGED <<store, now, nextId, call, ret, triggers>>
  /\ UNCHANGED scanVars

\* both queries have completed: queryProjects returns results and
\* totalCount
ListReturn(q) ==
  /\ reqs[q].pc = "queries" /\ reqs[q].resultsRead /\ reqs[q].countRead
  /\ reqs' = [reqs EXCEPT ![q].pc = "done", ![q].code = 200]
  /\ UNCHANGED <<store, now, nextId, call, ret, triggers>>
  /\ UNCHANGED scanVars

\* the listings asked for while a scan runs
ListQueries == {NoQuery, With(NoQuery, "ownership", "own"), With(NoQuery, "search", <<"o","l","d">>)}

(* ------------------------- tables with equal keys --------------------- *)

\* a two-letter name that sorts as the number k does
NameOf(k) == <<LowerChars[((k - 1) \div 26) + 1], LowerChars[((k - 1) % 26) + 1]>>

\* n repositories in n directories, own ones and forks.  Row i has the
\* name and the last-commit instant of rank i, except that with tied
\* the 26th repository has the name and the instant of the 25th (a clone
\* of it in another directory)
TieRows(n, tied) ==
  [i \in 1..n |->
     LET k == IF tied /\ i = PER_PAGE + 1 THEN PER_PAGE ELSE i
     IN NewRow(i, [path |-> <<"/","d">> \o DecText(i) \o <<"/">> \o NameOf(k),
                   name |-> NameOf(k),
                   lastCommitDate |-> Now0 - k, lastCommitMessage |-> Some(msgFix),
                   isFork |-> (i % 9 = 0),
                   metadata |-> Metadata(<<"w","e","b">>, sActiveLabel, <<>>,
                                         "unknown", Some(sDeployUnknown), 1)],
                Now0)]

\* page p of the listings by last-commit time, by name, and of the own
\* projects by name
TieQueries(p) ==
  { With(base, "page", DecText(p)) :
      base \in {NoQuery, With(NoQuery, "sort", "name"),
                With(With(NoQuery, "sort", "name"), "ownership", "own")} }

(* ------------------------------ filter pills -------------------------- *)

\* the order in which FilterPills pushes its pills
PillOrder == <<"search", "ownership", "status", "techStack", "type">>

Truthy(params, k) ==
  IF k = "search" THEN TruthyText(params.search) ELSE TruthyName(params[k])

\* the keys of the filters array of FilterPills, in push order
PillKeys(params) == SelectSeq(PillOrder, LAMBDA k : Truthy(params, k))

\* url.set for each key of the list in turn, with the value params holds
RECURSIVE SetAll(_, _, _)
SetAll(url, keys, params) ==
  IF keys = <<>> THEN url
  ELSE SetAll(With(url, Head(keys), params[Head(keys)][1]), Tail(keys), params)

\* buildUrlWithout(key): the query string of the dismiss link, as the
\* parameters it carries
buildUrlWithout(params, key) ==
  LET kept == SelectSeq(PillKeys(params), LAMBDA k : k # key /\ k # "search")
      head == SelectSeq(<<"sort", "direction">>, LAMBDA k : TruthyName(params[k]))
  IN SetAll(NoQuery, head \o kept, params)

\* FilterPills({ params }): the dismiss link of each pill
FilterPills(params) ==
  [k \in Range(PillKeys(params)) |-> buildUrlWithout(params, k)]

\* query strings with any of the five filters, a sort key and a
\* direction, and two that do not parse
PillQueries ==
  { [search |-> s, ownership |-> o, status |-> st, techStack |-> ts, type |-> ty,
     sort |-> so, direction |-> d, page |-> Null] :
      s \in {Null, Some(<<"B","U","G">>)}, o \in {Null, Some("own")},
      st \in {Null, Some("wip")}, ts \in {Null, Some("go")},
      ty \in {Null, Some("go-app")}, so \in {Null, Some("name")},
      d \in {Null, Some("desc")} }
  \cup { [With(With(NoQuery, "search", <<"B","U","G">>), "status", "bogus") EXCEPT !.sort = so] :
           so \in {Null, Some("name")} }

\* GET / renders the filter pills of the parsed query
RenderPills(query) ==
  /\ IsIdle
  /\ call' = [op |-> "pills", query |-> query]
  /\ ret' = [kind |-> "pills", links |-> FilterPills(RouteParams(query))]
  /\ UNCHANGED <<store, now, nextId>>
  /\ UNCHANGED scanVars
  /\ UNCHANGED serveVars

(* -------------------------- metadata validation ----------------------- *)

\* a JSON value: its type, and under the field of that type its content
JStr(s) == [t |-> "string", s |-> s, n |-> 0, items |-> <<>>, fields |-> <<>>]

JNum(n) == [t |-> "number", s |-> <<>>, n |-> n, items |-> <<>>, fields |-> <<>>]

JNull == [t |-> "null", s |-> <<>>, n |-> 0, items |-> <<>>, fields |-> <<>>]

JArr(items) == [t |-> "array", s |-> <<>>, n |-> 0, items |-> items, fields |-> <<>>]

\* an object: its entries [k, val] in insertion order
JObj(fields) == [t |-> "object", s |-> <<>>, n |-> 0, items |-> <<>>, fields |-> fields]

Entry(k, val) == [k |-> k, val |-> val]

Keys(fields) == {fields[i].k : i \in DOMAIN fields}

\* object[key], for a key the object has
Get(fields, key) == fields[CHOOSE i \in DOMAIN fields : fields[i].k = key].val

\* the entries of a list that satisfy Keep, in order
RECURSIVE SelectEntries(_, _)
SelectEntries(fields, keep) ==
  IF fields = <<>> THEN <<>>
  ELSE (IF Head(fields).k \in keep THEN <<Head(fields)>> ELSE <<>>)
       \o SelectEntries(Tail(fields), keep)

Field(k, schema, optional) == [k |-> k, schema |-> schema, optional |-> optional]

\* the shapes of the z.object schemas of validators.ts
Shapes ==
  [ projectMetadata |->
      << Field("lastCommitAuthor", "string", FALSE),
         Field("recentCommits", "commits", FALSE),
         Field("commitCount8m", "number", FALSE),
         Field("contributors", "strings", FALSE),
         Field("gitRemote", "string", TRUE),
         Field("referenceFiles", "referenceFiles", TRUE),
         Field("description", "string", TRUE),
         Field("currentState", "string", TRUE),
         Field("techStack", "strings", FALSE),
         Field("inferredType", "string", FALSE),
         Field("deploymentStatus", "string", TRUE),
         Field("nestedRepos", "strings", TRUE),
         Field("plansCount", "number", TRUE),
         Field("aiDocsCount", "number", TRUE),
         Field("claudeDescription", "nullableString", TRUE),
         Field("errors", "strings", TRUE) >>,
    commit |->
      << Field("date", "string", FALSE), Field("message", "string", FALSE) >>,
    referenceFiles |->
      << Field("root", "strings", TRUE), Field("ai", "strings", TRUE),
         Field("cursor", "strings", TRUE), Field("tasks", "strings", TRUE),
         Field("docs", "strings", TRUE) >> ]

\* every object schema drops the keys its shape does not name
UnknownKeysStripped(schema) == "strip"

\* what an object schema does with the keys its shape does not name:
\* z.object drops them, .passthrough() keeps them
UnknownKeys(schema) == IF schema = "projectMetadata" THEN "passthrough" ELSE "strip"

\* schema.safeParse(x): success, and on success the parsed value
RECURSIVE zParse(_, _)
zParse(schema, x) ==
  CASE schema = "string" -> [success |-> x.t = "string", data |-> x]
    [] schema = "number" -> [success |-> x.t = "number", data |-> x]
    [] schema = "nullableString" -> [success |-> x.t \in {"string", "null"}, data |-> x]
    [] schema \in {"strings", "commits"} ->
         LET item == IF schema = "strings" THEN "string" ELSE "commit"
         IN [success |-> /\ x.t = "array"
                         /\ \A i \in DOMAIN x.items : zParse(item, x.items[i]).success,
             data |-> JArr([i \in DOMAIN x.items |-> zParse(item, x.items[i]).data])]
    [] OTHER ->
         LET shape == Shapes[schema]
             known == {shape[i].k : i \in DOMAIN shape}
             present == {i \in DOMAIN shape : shape[i].k \in Keys(x.fields)}
             Parsed(i) == zParse(shape[i].schema, Get(x.fields, shape[i].k))
             kept == [i \in DOMAIN shape |->
                        IF i \in present THEN <<Entry(shape[i].k, Parsed(i).data)>>
                        ELSE <<>>]
             rest == IF UnknownKeys(schema) = "passthrough"
                       THEN SelectEntries(x.fields, Keys(x.fields) \ known)
                       ELSE <<>>
             Flat[n \in 0..Len(shape)] == IF n = 0 THEN <<>> ELSE Flat[n - 1] \o kept[n]
         IN [success |-> /\ x.t = "object"
                         /\ \A i \in DOMAIN shape :
                              IF i \in present THEN Parsed(i).success
                              ELSE shape[i].optional,
             data |-> JObj(Flat[Len(shape)] \o rest)]

\* projectMetadataSchema.safeParse(blob)
projectMetadataSchema(blob) == zParse("projectMetadata", blob)

Strings(list) == JArr([i \in DOMAIN list |-> JStr(list[i])])

OneCommit == JObj(<< Entry("date", JStr(<<"2","0","2","6","-","0","1","-","0","5">>)), Entry("message", JStr(msgFix)) >>)

\* the fields the schema requires, valid
RequiredFields ==
  << Entry("lastCommitAuthor", JStr(<<"a","n","n">>)),
     Entry("recentCommits", JArr(<<OneCommit>>)),
     Entry("commitCount8m", JNum(2)),
     Entry("contributors", Strings(<< <<"a","n","n">> >>)),
     Entry("techStack", Strings(<< <<"g","o">> >>)),
     Entry("inferredType", JStr(<<"g","o","-","a","p","p">>)) >>

\* fields the schema names as optional, valid
OptionalFields ==
  << Entry("gitRemote", JStr(ScpRemote(sGithubCom, <<"a","l","i","c","e","/","a","p","p",".","g","i","t">>))),
     Entry("referenceFiles", JObj(<< Entry("root", Strings(<< <<"R","E","A","D","M","E",".","m","d">> >>)) >>)),
     Entry("description", JStr(<<"g","o"," ","a","p","i">>)),
     Entry("plansCount", JNum(2)),
     Entry("claudeDescription", JNull),
     Entry("errors", Strings(<< <<"D","e","p","l","o","y","m","e","n","t"," ","e","r","r","o","r",":"," ","E","I","O">> >>)) >>

\* entries with the value of one key replaced, or the key dropped
Replace(fields, key, val) ==
  [i \in DOMAIN fields |-> IF fields[i].k = key THEN Entry(key, val) ELSE fields[i]]

Without(fields, key) == SelectEntries(fields, Keys(fields) \ {key})

\* the known part of a blob: valid with and without the optional fields;
\* valid with a commit entry or a reference-file listing that carries a
\* key of its own; not valid, by a wrong type, a missing field, a null
KnownParts ==
  { RequiredFields,
    RequiredFields \o OptionalFields,
    Replace(RequiredFields, "recentCommits",
            JArr(<< JObj(OneCommit.fields \o << Entry("hash", JStr(<<"a","b","c">>)) >>) >>)),
    RequiredFields
      \o << Entry("referenceFiles",
                  JObj(<< Entry("root", Strings(<< <<"R","E","A","D","M","E",".","m","d">> >>)),
                          Entry("wiki", Strings(<< <<"H","o","m","e",".","m","d">> >>)) >>)) >>,
    Replace(RequiredFields, "commitCount8m", JStr(<<"2">>)),
    Without(RequiredFields, "techStack"),
    RequiredFields \o << Entry("description", JNull) >> }

\* fields the schema does not name
UnknownFields ==
  << Entry("tech_stack", Strings(<< <<"g","o">> >>)),
     Entry("commit_count_8m", JNum(3)),
     Entry("note", JStr(<<"k","e","e","p">>)),
     Entry("extra", JObj(<< Entry("a", JNum(1)) >>)),
     Entry("flag", JNull) >>

\* the blobs handed to the schema: a known part with any of the unknown
\* fields after it
MetadataBlobs ==
  { JObj(known \o SelectEntries(UnknownFields, extra)) :
      known \in KnownParts, extra \in SUBSET Keys(UnknownFields) }

\* projectMetadataSchema is applied to a blob
ValidateMetadata(blob) ==
  /\ IsIdle
  /\ call' = [op |-> "validate", blob |-> blob]
  /\ ret' = [kind |-> "validate", result |-> projectMetadataSchema(blob)]
  /\ UNCHANGED <<store, now, nextId>>
  /\ UNCHANGED scanVars
  /\ UNCHANGED serveVars

(* --------------------------- specifications --------------------------- *)

Init ==
  /\ store = <<>>
  /\ now = Now0
  /\ nextId = 1
  /\ call = Idle
  /\ ret = NoRet
  /\ tree = NoTree
  /\ lib = PlainLib
  /\ runs = NoRuns
  /\ triggers = FALSE
  /\ reqs = NoReqs

Next ==
  \/ \E p \in ScannedProjects : Upsert(p)
  \/ \E q \in Queries : GetIndex(q)
  \/ \E id \in 1..MaxRows, sort \in {Null, Some("name"), Some("commit_count")},
        direction \in {Null, Some("asc"), Some("desc")} : GetShow(id, sort, direction)
  \/ Return

Spec == Init /\ [][Next]_vars

\* the status rules on one stored repository, as the clock advances
InitStatus ==
  /\ \E p \in StatusProjects : store = <<NewRow(1, p, Now0)>>
  /\ now = Now0
  /\ nextId = 2
  /\ call = Idle
  /\ ret = NoRet
  /\ tree = NoTree
  /\ lib = PlainLib
  /\ runs = NoRuns
  /\ triggers = FALSE
  /\ reqs = NoReqs

NextStatus ==
  \/ \E q \in StatusQueries : GetIndex(q)
  \/ Return
  \/ Tick

SpecStatus == InitStatus /\ [][NextStatus]_vars

\* paging over tables of up to two full pages and MaxExtra more rows
InitPage ==
  /\ \E n \in 0..(2 * PER_PAGE + MaxExtra) : store = PageRows(n)
  /\ now = Now0
  /\ nextId = Len(store) + 1
  /\ call = Idle
  /\ ret = NoRet
  /\ tree = NoTree
  /\ lib = PlainLib
  /\ runs = NoRuns
  /\ triggers = FALSE
  /\ reqs = NoReqs

NextPage ==
  \/ \E q \in PageQueries : GetIndex(q)
  \/ Return

SpecPage == InitPage /\ [][NextPage]_vars

\* fork classification on its own
NextFork ==
  \/ \E remote \in ForkRemotes, githubUser \in ForkUsers : DetectIsFork(remote, githubUser)
  \/ Return

SpecFork == Init /\ [][NextFork]_vars

\* extraction on its own
NextExtract ==
  \/ \E repo \in ExtractRepos, env \in ExtractEnvs :
       ExtractProjectData(repo, Some(sAlice), env)
  \/ Return

SpecExtract == Init /\ [][NextExtract]_vars

\* one scan run over a tree of two repositories, or of none
InitScan ==
  /\ store = <<>>
  /\ now = Now0
  /\ nextId = 1
  /\ call = Idle
  /\ ret = NoRet
  /\ tree \in {{RepoApp, RepoBot}, {RepoApp, RepoNew}, {}}
  /\ lib \in Libs
  /\ runs = NoRuns
  /\ triggers = FALSE
  /\ reqs = NoReqs

NextScan ==
  \/ \E o \in ScanOptionSets : StartScan("A", o)
  \/ Discover("A")
  \/ DiscoverFails("A")
  \/ ProcessRepo("A", ScanEnvs)
  \/ PersistProject("A")
  \/ PersistFails("A")
  \/ PrintSummary("A")

SpecScan == InitScan /\ [][NextScan]_vars

\* two scan runs over one unchanged tree, one after the other or
\* overlapping; A is the one that starts first
InitRescan ==
  /\ store = <<>>
  /\ now = Now0
  /\ nextId = 1
  /\ call = Idle
  /\ ret = NoRet
  /\ tree = {RepoApp, RepoBot}
  /\ lib \in {l \in Libs : l.sinceMidnight}
  /\ runs = NoRuns
  /\ triggers = FALSE
  /\ reqs = NoReqs

NextRescan ==
  \/ \E o \in RescanOptionSets : StartScan("A", o)
  \/ runs["A"].pc # "idle" /\ \E o \in RescanOptionSets : StartScan("B", o)
  \/ \E r \in RunIds :
       \/ Discover(r)
       \/ ProcessRepo(r, RescanEnvs)
       \/ PersistProject(r)
       \/ PrintSummary(r)
  \/ runs["A"].pc = "done" /\ runs["B"].pc = "idle" /\ \E d \in Waits : Wait(d)

SpecRescan == InitRescan /\ [][NextRescan]_vars

\* validation of metadata blobs on its own
NextMeta ==
  \/ \E blob \in MetadataBlobs : ValidateMetadata(blob)
  \/ Return

SpecMeta == Init /\ [][NextMeta]_vars

\* one scan run over a tree of four repositories and a table that an
\* earlier run filled
InitStored ==
  /\ store = StoredBefore
  /\ now = Now0
  /\ nextId = Len(StoredBefore) + 1
  /\ call = Idle
  /\ ret = NoRet
  /\ tree = StoredTree
  /\ lib = PlainLib
  /\ runs = NoRuns
  /\ triggers = FALSE
  /\ reqs = NoReqs

NextStored ==
  \/ \E o \in ScanOptionSets : StartScan("A", o)
  \/ Discover("A")
  \/ DiscoverFails("A")
  \/ ProcessRepo("A", ScanEnvs)
  \/ PersistProject("A")
  \/ PersistFails("A")
  \/ PrintSummary("A")

SpecStored == InitStored /\ [][NextStored]_vars

\* the filter pills on their own
NextPills ==
  \/ \E q \in PillQueries : RenderPills(q)
  \/ Return

SpecPills == Init /\ [][NextPills]_vars

\* pin requests side by side on a table that an earlier run filled, in
\* a database with and without the triggers of the migration
InitPin ==
  /\ store = StoredBefore
  /\ now = Now0
  /\ nextId = Len(StoredBefore) + 1
  /\ call = Idle
  /\ ret = NoRet
  /\ tree = NoTree
  /\ lib = PlainLib
  /\ runs = NoRuns
  /\ triggers \in BOOLEAN
  /\ reqs = NoReqs

NextPin ==
  \/ \E q \in ReqIds, id \in 1..(Len(StoredBefore) + 1) : PinRead(q, id)
  \/ \E q \in ReqIds : PinUpdate(q)

SpecPin == InitPin /\ [][NextPin]_vars

\* a listing and a pin request while a scan run upserts
InitList ==
  /\ store = StoredBefore
  /\ now = Now0
  /\ nextId = Len(StoredBefore) + 1
  /\ call = Idle
  /\ ret = NoRet
  /\ tree = StoredTree
  /\ lib = PlainLib
  /\ runs = NoRuns
  /\ triggers = FALSE
  /\ reqs = NoReqs

NextList ==
  \/ \E o \in RescanOptionSets : StartScan("A", o)
  \/ Discover("A")
  \/ ProcessRepo("A", {NoFailure})
  \/ PersistProject("A")
  \/ PrintSummary("A")
  \/ \E query \in ListQueries : ListStart("P", query)
  \/ ListPage("P")
  \/ ListCount("P")
  \/ ListReturn("P")
  \/ \E id \in 1..Len(StoredBefore) : PinRead("Q", id)
  \/ PinUpdate("Q")

SpecList == InitList /\ [][NextList]_vars

\* a request for page 1 and a request for page 2 on a table that does
\* not change, of 3 or 26 rows, with and without two rows that tie on
\* name and last-commit time
InitTies ==
  /\ \E n \in {3, PER_PAGE + 1}, tied \in BOOLEAN : store = TieRows(n, tied)
  /\ now = Now0
  /\ nextId = Len(store) + 1
  /\ call = Idle
  /\ ret = NoRet
  /\ tree = NoTree
  /\ lib = PlainLib
  /\ runs = NoRuns
  /\ triggers = FALSE
  /\ reqs = NoReqs

NextTies ==
  \/ \E query \in TieQueries(1) : ListStart("P", query)
  \/ \E query \in TieQueries(2) : ListStart("Q", query)
  \/ \E q \in {"P", "Q"} :
       \/ ListPage(q)
       \/ ListCount(q)
       \/ ListReturn(q)

SpecTies == InitTies /\ [][NextTies]_vars

(* ------------------------------ properties ---------------------------- *)

FiveStatuses == {"active", "recent", "paused", "wip", "deployed"}

ResultIds == Range(ret.results)

IndexDone == call.op = "index"

\* the request carried exactly this one parameter
OnlyParam(k) == IndexDone /\ \E v \in RawValues[k] : call.query = With(NoQuery, k, v)

\* C1: for each of the five statuses s, a listing filtered by status = s
\* returns a stored record if and only if computeStatus gives s for that
\* record at the same instant.
C1_StatusAgreement ==
  (OnlyParam("status") /\ call.query.status[1] \in FiveStatuses) =>
    \A i \in DOMAIN store :
      (store[i].id \in ResultIds) <=> (computeStatus(store[i], now) = call.query.status[1])

\* the wip rule as the specification words it
WipRule(row) ==
  \/ row.lastCommitMessage # Null /\ WIP_PATTERN(row.lastCommitMessage[1])
  \/ MetaIncludes(row.metadata, "currentState", sWorkInProgress)

DeployedRule(row) == MetaIncludes(row.metadata, "deploymentStatus", sLikelyDeployed)

\* C2: the status shown for a record is wip whenever the wip rule fires,
\* whatever its age and deployment narrative; otherwise deployed when the
\* narrative says likely deployed; otherwise active for an age under 7
\* days, recent from 7 days to under 30 days, paused from 30 days on.
C2_StatusPriority ==
  IndexDone =>
    \A k \in DOMAIN ret.results :
      LET row == RowById(store, ret.results[k])
          age == now - row.lastCommitDate
          shown == ret.badges[k]
      IN /\ WipRule(row) => shown = "wip"
         /\ (~WipRule(row) /\ DeployedRule(row)) => shown = "deployed"
         /\ (~WipRule(row) /\ ~DeployedRule(row)) =>
              /\ (age < 7 * TicksPerDay) => shown = "active"
              /\ (7 * TicksPerDay <= age /\ age < 30 * TicksPerDay) => shown = "recent"
              /\ (age >= 30 * TicksPerDay) => shown = "paused"

\* a wip commit three days old in a repository that looks deployed is
\* listed with the wip badge
C2_Witness ==
  /\ IndexDone
  /\ \E k \in DOMAIN ret.results :
       LET row == RowById(store, ret.results[k])
       IN /\ row.lastCommitMessage = Some(msgWip)
          /\ DeployedRule(row)
          /\ now - row.lastCommitDate = 3 * TicksPerDay
          /\ ret.badges[k] = "wip"

\* C3: a listing filtered by tech stack t returns a stored record if and
\* only if t is an element of the tag list the scan pipeline persisted
\* for it.
C3_TechStackMembership ==
  OnlyParam("techStack") =>
    \A i \in DOMAIN store :
      (store[i].id \in ResultIds)
        <=> (call.query.techStack[1] \in Range(store[i].metadata.techStack))

FilterDims == {"search", "ownership", "status", "techStack", "type"}

\* the parameter is in the query string with a non-empty value
RawPresent(q, d) == q[d] # Null /\ q[d][1] # (IF d = "search" THEN <<>> ELSE "")

\* the ids the listing returns when d is the only parameter
AloneIds(q, d) ==
  UNION { Range(r.results) :
          r \in queryProjects(RouteParams(With(NoQuery, d, q[d][1])), store, now) }

ParseOk == safeParse(call.query).success

\* C4: the records a listing returns are those that each present filter
\* dimension returns when it is the only one; an absent or empty
\* dimension constrains nothing, and with none present every stored
\* record is returned.
C4_FiltersIntersect ==
  (IndexDone /\ ParseOk /\ ret.page = 1) =>
    ResultIds =
      { store[i].id : i \in { j \in DOMAIN store :
          \A d \in FilterDims :
            RawPresent(call.query, d) => store[j].id \in AloneIds(call.query, d) } }

\* two present dimensions that each select a record and together none
C4_Witness ==
  /\ IndexDone /\ ParseOk /\ ret.page = 1
  /\ RawPresent(call.query, "ownership") /\ RawPresent(call.query, "status")
  /\ AloneIds(call.query, "ownership") # {}
  /\ AloneIds(call.query, "status") # {}
  /\ ResultIds = {}
  /\ Len(store) = 2

\* the listed rows are in the order of the sort expression and direction
ListedInOrder(expr, dir) ==
  \A i, j \in DOMAIN ret.results :
    i < j => ~Precedes([expr |-> expr, dirs |-> <<dir>>],
                       RowById(store, ret.results[j]),
                       RowById(store, ret.results[i]))

Absent(q, d) == ~RawPresent(q, d)

\* C6: without a direction the listing is ascending for sort key name,
\* descending for last-commit time and commit count, and by last-commit
\* time descending when there is no sort key.
C6_DefaultDirection ==
  (IndexDone /\ ParseOk /\ Absent(call.query, "direction")) =>
    IF call.query.sort = Some("name") THEN ListedInOrder("name", "asc")
    ELSE IF call.query.sort = Some("commit_count") THEN ListedInOrder("commit_count", "desc")
    ELSE ListedInOrder("last_commit_date", "desc")

\* the query string with every unrecognized value removed
Sanitize(q) ==
  [q EXCEPT
     !.ownership = IF ParseEnum(@, {"own", "forks"}).ok THEN @ ELSE Null,
     !.status = IF ParseEnum(@, StatusNames).ok THEN @ ELSE Null,
     !.sort = IF ParseEnum(@, {"name", "last_commit_date", "commit_count"}).ok
                THEN @ ELSE Null,
     !.direction = IF ParseEnum(@, {"asc", "desc"}).ok THEN @ ELSE Null,
     !.page = IF ParsePage(@).ok THEN @ ELSE Null]

\* C7: a listing request never fails, and an unrecognized value makes
\* only its own dimension fall back: the response is the one the same
\* request gives without the unrecognized values.
C7_FallbackPerDimension ==
  IndexDone =>
    /\ ret.code = 200
    /\ \E r \in queryProjects(RouteParams(Sanitize(call.query)), store, now) :
         /\ r.results = ret.results
         /\ r.totalCount = ret.totalCount
         /\ r.page = ret.page

\* q occurs in the text, letter case ignored, as a literal substring
LiteralIn(q, text) == Includes(ToLowerCase(text), ToLowerCase(q))

LiteralMatch(q, row) ==
  \/ LiteralIn(q, row.name)
  \/ LiteralIn(q, row.path)
  \/ row.lastCommitMessage # Null /\ LiteralIn(q, row.lastCommitMessage[1])
  \/ "description" \in DOMAIN row.metadata /\ LiteralIn(q, row.metadata.description)

\* C8: a search for q returns a record if and only if q occurs, letter
\* case ignored, as a literal substring of its name, path, last-commit
\* message or description, also when q contains % or _.
C8_SearchLiteral ==
  (OnlyParam("search") /\ call.query.search[1] # <<>>) =>
    \A i \in DOMAIN store :
      (store[i].id \in ResultIds) <=> LiteralMatch(call.query.search[1], store[i])

\* id is at position k of the listing and prev, next are its neighbours
NeighboursIn(results, id, prev, next) ==
  \E k \in DOMAIN results :
    /\ results[k] = id
    /\ prev = (IF k > 1 THEN results[k - 1] ELSE NoRow)
    /\ next = (IF k < Len(results) THEN results[k + 1] ELSE NoRow)

\* C9: the detail page of a stored record gets as (prev, next) the
\* records before and after it in the unfiltered listing under the same
\* sort key and direction, with no record at either end.
C9_AdjacentNeighbours ==
  (call.op = "show" /\ RowWithId(store, call.id) # {}) =>
    /\ ret.code = 200
    /\ \E r \in queryProjects(
                  [NoParams EXCEPT
                     !.sort = IF call.sort = Null THEN Some("last_commit_date") ELSE call.sort,
                     !.direction = IF call.direction = Null THEN Some("desc") ELSE call.direction],
                  store, now) :
         NeighboursIn(r.results, call.id, ret.prev, ret.next)

\* the totalCount of the listing filtered by the one status
TotalFor(status) ==
  (CHOOSE r \in queryProjects([NoParams EXCEPT !.status = Some(status)], store, now) :
     TRUE).totalCount

\* C10: the sidebar's active-this-week count is the totalCount of the
\* listing for status = active_this_week, which is that for status =
\* active, and its stalled count is the totalCount for status = stalled.
C10_SidebarCounts ==
  IndexDone =>
    /\ ret.sidebar.activeThisWeekCount = TotalFor("active_this_week")
    /\ TotalFor("active_this_week") = TotalFor("active")
    /\ ret.sidebar.stalledCount = TotalFor("stalled")

Max(a, b) == IF a > b THEN a ELSE b

\* the number of stored records the request's ownership filter keeps
OwnershipMatches ==
  Cardinality({ i \in DOMAIN store :
                  (call.query.ownership = Some("own")) => ~store[i].isFork })

\* C5: with N records matching the filters, page p of the listing holds
\* min(25, max(0, N - 25 * (p - 1))) records and reports totalCount = N,
\* on every page, those past the end included.
C5_PageSizes ==
  (IndexDone /\ ParseOk /\ call.query.page # Null) =>
    LET N == OwnershipMatches
        p == DecValue(call.query.page[1])
    IN /\ ret.page = p
       /\ Len(ret.results) = Min(25, Max(0, N - 25 * (p - 1)))
       /\ ret.totalCount = N

\* 57 matching records: page 3 holds 7 of them and reports 57
C5_Witness ==
  /\ IndexDone /\ ParseOk
  /\ OwnershipMatches = 57
  /\ ret.page = 3
  /\ Len(ret.results) = 7
  /\ ret.totalCount = 57

\* C11: detectIsFork is false when the remote or the identity is absent
\* or empty or the remote's host is not github.com, and otherwise true
\* exactly when the owner segment of the remote path differs from the
\* identity, letter case ignored; so a remote on another host is never a
\* fork, also when github.com occurs elsewhere in its URL.
C11_ForkClassification ==
  call.op = "detectIsFork" =>
    ret.value = ( /\ TruthyText(call.remote.url)
                  /\ TruthyText(call.githubUser)
                  /\ call.remote.host = sGithubCom
                  /\ ToLowerCase(call.remote.owner) # ToLowerCase(call.githubUser[1]) )

ExtractDone == call.op = "extract"

\* the directory has a .git directory and at least one commit
HasHistory(repo) == repo.hasGit /\ repo.commits # <<>>

\* C12: extractProjectData returns null exactly when the directory has no
\* .git directory or the repository has no commit; in every other case,
\* a failure of the commit-history read included, it returns a record.
C12_NullOnlyWithoutHistory ==
  (ExtractDone /\ ~call.env.throws) =>
    /\ ~HasHistory(call.repo) => ret.value.kind = "null"
    /\ HasHistory(call.repo) => ret.value.kind = "project"

\* the metadata key each probe fills
ProbeKey ==
  [commitCount |-> "commitCount8m", remote |-> "gitRemote",
   referenceFiles |-> "referenceFiles", description |-> "description",
   techStack |-> "techStack", currentState |-> "currentState",
   deploymentStatus |-> "deploymentStatus", nestedRepos |-> "nestedRepos",
   plansCount |-> "plansCount", aiDocsCount |-> "aiDocsCount",
   claudeDescription |-> "claudeDescription"]

\* what a probe yielded: the value under its key, if the key is there
Yield(metadata, probe) ==
  IF ProbeKey[probe] \in DOMAIN metadata THEN Some(metadata[ProbeKey[probe]]) ELSE Null

\* the default of each probe: 0 for the counts, the empty list for the
\* tags, "unknown" for the work state, null for the AI description, the
\* directory name for the description, and no value for the others
DefaultYield(probe, name) ==
  CASE probe \in {"commitCount", "plansCount", "aiDocsCount"} -> Some(0)
    [] probe = "techStack" -> Some(<<>>)
    [] probe = "currentState" -> Some(sUnknown)
    [] probe = "description" -> Some(name)
    [] probe = "claudeDescription" -> Some(Null)
    [] OTHER -> Null

\* the call was on a repository with history whose history read succeeded
ProbesRan == ExtractDone /\ HasHistory(call.repo) /\ ~call.env.throws /\ ~call.env.logFails

\* the metadata of the same call with no probe failing
Unfailed ==
  extractProjectData(call.repo, call.githubUser, now,
                     [call.env EXCEPT !.fail = {}]).project.metadata

Marked(run, marks) == {run.log[k].path : k \in {x \in DOMAIN run.log : run.log[x].mark \in marks}}

CountMarks(run, marks) == Cardinality({k \in DOMAIN run.log : run.log[k].mark \in marks})

NonDry(run) == run.options # Null /\ ~run.options[1].dryRun

\* C14: in a scan run each failure of one repository, a throwing
\* extraction or a failed upsert, adds exactly one to errored and stops
\* nothing: every discovered repository is extracted, and in a non-dry
\* run every repository whose record passed the cutoff is upserted, and
\* stored unless its own upsert failed.
C14_FailuresIsolated ==
  LET run == runs["A"]
  IN /\ run.result.errored = CountMarks(run, {"error", "save failed"})
     /\ run.pc = "done" =>
          /\ Marked(run, {"error", "invalid/no commits", "too old", "ok"})
               = {d.path : d \in {x \in tree : x.hasGit}}
          /\ NonDry(run) =>
               /\ Marked(run, {"saved", "save failed"}) = Marked(run, {"ok"})
               /\ \A p \in Marked(run, {"saved"}) :
                    \E i \in DOMAIN store : store[i].path = p

\* the extraction of the first repository threw, and the second one was
\* extracted and stored
C14_Witness ==
  LET run == runs["A"]
  IN /\ run.pc = "done"
     /\ NonDry(run)
     /\ Len(run.log) = 3
     /\ run.log[1].mark = "error"
     /\ run.log[2].mark = "ok"
     /\ run.log[3].mark = "saved"
     /\ run.result = [saved |-> 1, skipped |-> 0, errored |-> 1, total |-> 2]
     /\ Len(store) = 1

\* C15: a scan run that has ended has printed the summary and returned
\* its counts, also when discovery failed, when every extraction failed
\* and when every upsert failed.
C15_ScanAlwaysReports ==
  \A r \in RunIds :
    runs[r].pc \in {"done", "rejected"} =>
      /\ runs[r].summary
      /\ runs[r].returned = Some(runs[r].result)

\* the attributes of a stored record that an upsert writes
ScanWritten(row) ==
  [path |-> row.path, name |-> row.name, lastCommitDate |-> row.lastCommitDate,
   lastCommitMessage |-> row.lastCommitMessage, isFork |-> row.isFork,
   metadata |-> row.metadata]

\* the instant the run started at
StartedAt(run) == run.cutoffDate + run.options[1].cutoffDays * TicksPerDay

\* the run met no failing probe
NoProbeFailed(run) ==
  \A k \in DOMAIN run.scannedProjects : "errors" \notin DOMAIN run.scannedProjects[k].metadata

\* run B started after run A had returned, with the same options, and
\* has returned too; neither met a failure
ScannedTwice ==
  /\ runs["A"].pc = "done" /\ runs["B"].pc = "done"
  /\ "A" \in runs["B"].after
  /\ runs["A"].options = runs["B"].options
  /\ NoProbeFailed(runs["A"]) /\ NoProbeFailed(runs["B"])

\* C16: a second non-dry scan of an unchanged tree creates no record and
\* leaves every scan-written attribute of every stored record, every
\* metadata field included, at its value after the first scan.
C16_RescanIdempotent ==
  ScannedTwice =>
    /\ Len(store) = Len(runs["A"].scannedProjects)
    /\ \A i \in DOMAIN store :
         \E k \in DOMAIN runs["A"].scannedProjects :
           ScanWritten(store[i]) = runs["A"].scannedProjects[k]

\* the commits of the repository whose age at t is at most, or under, span
CommitsWithin(repo, t, span, strict) ==
  Cardinality({i \in DOMAIN repo.commits :
                 IF strict THEN t - repo.commits[i].date < span
                 ELSE t - repo.commits[i].date <= span})

Upserted(run) == {run.scannedProjects[k] : k \in 1..(run.j - 1)}

\* C18: under every interleaving of two non-dry scan runs of one tree the
\* store holds one record for each path a run has upserted, and the
\* scan-written attributes of each record are those of one upsert of one
\* run.
C18_UpsertAtomic ==
  /\ \A i, j \in DOMAIN store : store[i].path = store[j].path => i = j
  /\ \A i \in DOMAIN store :
       \E r \in RunIds : ScanWritten(store[i]) \in Upserted(runs[r])
  /\ \A r \in RunIds : \A p \in Upserted(runs[r]) :
       \E i \in DOMAIN store : store[i].path = p.path

\* two overlapping runs that extracted different values for both
\* repositories: one record is as run A wrote it, the other as run B did
C18_Witness ==
  /\ runs["A"].pc = "done" /\ runs["B"].pc = "done"
  /\ runs["B"].after = {}
  /\ Len(store) = 2
  /\ \E i, j \in DOMAIN store :
       /\ ScanWritten(store[i]) \in Upserted(runs["A"]) \ Upserted(runs["B"])
       /\ ScanWritten(store[j]) \in Upserted(runs["B"]) \ Upserted(runs["A"])
       /\ store[i].isFork # store[j].isFork
       /\ "errors" \in DOMAIN store[i].metadata

\* C19: a listing filtered by type T returns a stored record if and only
\* if the inferred type the scan pipeline persisted for it is T.
C19_TypeFilter ==
  OnlyParam("type") =>
    \A i \in DOMAIN store :
      (store[i].id \in ResultIds) <=> (store[i].metadata.inferredType = call.query.type[1])

ShapeKeys == {Shapes.projectMetadata[i].k : i \in DOMAIN Shapes.projectMetadata}

\* the known fields of the blob, alone, are valid
KnownValid(blob) ==
  projectMetadataSchema(JObj(SelectEntries(blob.fields, ShapeKeys))).success

\* C20: a blob that carries fields the schema does not name next to
\* valid known fields passes validation, and the validated blob holds
\* every field of the blob, named by the schema or not, with its value
\* unchanged.
C20_UnknownFieldsKept ==
  (call.op = "validate" /\ KnownValid(call.blob) /\ Keys(call.blob.fields) \ ShapeKeys # {}) =>
    /\ ret.result.success
    /\ Keys(ret.result.data.fields) = Keys(call.blob.fields)
    /\ \A k \in Keys(call.blob.fields) :
         Get(ret.result.data.fields, k) = Get(call.blob.fields, k)

\* the count of commits in the window that the scan pipeline persisted
StoredCount(id) == RowById(store, id).metadata.commitCount8m

\* C21: a listing sorted by commit_count returns the matching records in
\* the order of the commit count the scan pipeline persisted, descending
\* unless the direction is asc: of two returned records with different
\* stored counts, the one with the larger count comes first when
\* descending, the one with the smaller count when ascending.
C21_CommitCountOrder ==
  (IndexDone /\ ParseOk /\ call.query.sort = Some("commit_count")) =>
    \A i, j \in DOMAIN ret.results :
      (i < j /\ StoredCount(ret.results[i]) # StoredCount(ret.results[j])) =>
        IF call.query.direction = Some("asc")
          THEN StoredCount(ret.results[i]) < StoredCount(ret.results[j])
          ELSE StoredCount(ret.results[i]) > StoredCount(ret.results[j])

\* the mark a run printed for a path while processing or saving it
MarkOf(run, path, marks) ==
  {run.log[k].mark : k \in {x \in DOMAIN run.log : run.log[x].path = path}} \cap marks

RowsAt(rows, path) == {rows[i] : i \in {k \in DOMAIN rows : rows[k].path = path}}

\* the extraction of the path returned a record, and the last commit
\* of the repository is not earlier than the cutoff date of the run
Survives(run, path) ==
  /\ MarkOf(run, path, {"error", "invalid/no commits"}) = {}
  /\ RepoAt(tree, path).commits # <<>>
  /\ RepoAt(tree, path).commits[1].date >= run.cutoffDate

\* C22: when a non-dry scan run has returned, an upsert was issued for a
\* discovered path if and only if its extraction returned a record
\* whose last commit is not earlier than the cutoff date; a path whose
\* upsert resolved holds the record of this run, and for every other
\* discovered path the table holds what it held before the run: no row,
\* or the row of the earlier run as it was.
C22_CutoffDecidesUpsert ==
  (runs["A"].pc = "done" /\ NonDry(runs["A"])) =>
    \A p \in Range(runs["A"].repoPaths) :
      /\ (MarkOf(runs["A"], p, {"saved", "save failed"}) # {}) <=> Survives(runs["A"], p)
      /\ IF MarkOf(runs["A"], p, {"saved"}) # {}
           THEN \E row \in RowsAt(store, p) :
                  /\ row.updatedAt = now
                  /\ row.lastCommitDate = RepoAt(tree, p).commits[1].date
           ELSE RowsAt(store, p) = RowsAt(StoredBefore, p)

\* a run with a cutoff of 240 days has returned: the repository whose
\* last commit is 240 days old was saved, the one 300 days old was
\* turned away and its row of the earlier run is in the table
C22_Witness ==
  /\ runs["A"].pc = "done" /\ NonDry(runs["A"])
  /\ runs["A"].options[1].cutoffDays = 240
  /\ MarkOf(runs["A"], RepoEdge.path, {"saved"}) # {}
  /\ MarkOf(runs["A"], RepoOld.path, {"too old"}) # {}
  /\ RowsAt(store, RepoOld.path) # {}
  /\ MarkOf(runs["A"], RepoApp.path, {"error"}) # {}

\* the row with the six columns of the upsert's set list taken from the
\* scanned project p at instant t, and every other column as it is
WithScanned(row, p, t) ==
  [id |-> row.id, path |-> row.path, name |-> p.name,
   lastCommitDate |-> p.lastCommitDate, lastCommitMessage |-> p.lastCommitMessage,
   metadata |-> p.metadata, isFork |-> p.isFork,
   pinned |-> row.pinned, lastViewedAt |-> row.lastViewedAt,
   createdAt |-> row.createdAt, updatedAt |-> t]

\* C23: an upsert of a stored path changes only name, last-commit date,
\* last-commit message, metadata, ownership flag and updated timestamp:
\* every row of the table the run found is in its place with its id,
\* path, pinned flag, last-viewed timestamp and created timestamp, and
\* is either as it was or as it was with those six columns taken from
\* a record the run scanned for its path.
C23_UpsertKeepsServingColumns ==
  \A k \in DOMAIN StoredBefore :
    /\ k \in DOMAIN store
    /\ \/ store[k] = StoredBefore[k]
       \/ \E p \in Range(runs["A"].scannedProjects) :
            /\ p.path = StoredBefore[k].path
            /\ store[k] = WithScanned(StoredBefore[k], p, now)

\* the run has upserted /app, which the table held pinned and viewed:
\* the row has the last commit of this run and is still pinned
C23_Witness ==
  /\ MarkOf(runs["A"], RepoApp.path, {"saved"}) # {}
  /\ store[1].lastCommitDate = RepoApp.commits[1].date
  /\ store[1].lastCommitDate # StoredBefore[1].lastCommitDate
  /\ store[1].metadata # StoredBefore[1].metadata
  /\ store[1].updatedAt > store[1].createdAt
  /\ store[1].pinned /\ store[1].lastViewedAt # Null

IsDry(run) == run.options # Null /\ run.options[1].dryRun

\* C24: a scan run with dryRun = true writes nothing: at every step of
\* the run the table is the table the run found and saved is 0; when
\* the run has returned, every repository of the tree that holds a .git
\* directory was discovered and processed, the repositories older than
\* the cutoff were turned away, and the summary was printed.
C24_DryRunWritesNothing ==
  IsDry(runs["A"]) =>
    /\ store = StoredBefore
    /\ nextId = Len(StoredBefore) + 1
    /\ runs["A"].result.saved = 0
    /\ runs["A"].pc = "done" =>
         /\ runs["A"].summary
         /\ runs["A"].returned = Some(runs["A"].result)
         /\ Range(runs["A"].repoPaths) = {d.path : d \in {x \in tree : x.hasGit}}
         /\ \A p \in Range(runs["A"].repoPaths) :
              /\ MarkOf(runs["A"], p, {"ok", "too old", "invalid/no commits", "error"}) # {}
              /\ MarkOf(runs["A"], p, {"saved", "save failed"}) = {}
              /\ MarkOf(runs["A"], p, {"ok"}) # {} <=> Survives(runs["A"], p)

\* a dry run has returned that found two repositories recent enough
\* and turned one away as too old
C24_Witness ==
  /\ IsDry(runs["A"]) /\ runs["A"].pc = "done"
  /\ Len(runs["A"].scannedProjects) = 2
  /\ MarkOf(runs["A"], RepoOld.path, {"too old"}) # {}
  /\ MarkOf(runs["A"], RepoNew.path, {"invalid/no commits"}) # {}

\* the discovered paths for which the run printed one of the marks
PathsMarked(run, marks) == {p \in Range(run.repoPaths) : MarkOf(run, p, marks) # {}}

\* C26: when a non-dry scan run returns, saved + skipped + errored =
\* total, and every discovered repository is counted in exactly one
\* counter: skipped when its extraction returned nothing or a record
\* older than the cutoff, errored when its extraction threw or its
\* upsert rejected, saved when its upsert resolved.  When a dry run
\* returns, skipped + errored + the number of records that passed the
\* cutoff = total, and saved = 0.
C26_CountersPartition ==
  runs["A"].pc = "done" =>
    LET run == runs["A"]
        c == run.result
        skipped == PathsMarked(run, {"invalid/no commits", "too old"})
        thrown == PathsMarked(run, {"error"})
        passed == PathsMarked(run, {"ok"})
        saved == PathsMarked(run, {"saved"})
        failed == PathsMarked(run, {"save failed"})
    IN /\ c.total = Len(run.repoPaths)
       /\ c.total = Cardinality(Range(run.repoPaths))
       /\ skipped \cup thrown \cup passed = Range(run.repoPaths)
       /\ skipped \cap thrown = {} /\ skipped \cap passed = {} /\ thrown \cap passed = {}
       /\ c.skipped = Cardinality(skipped)
       /\ Len(run.scannedProjects) = Cardinality(passed)
       /\ IF IsDry(run)
            THEN /\ c.saved = 0
                 /\ c.errored = Cardinality(thrown)
                 /\ c.skipped + c.errored + Len(run.scannedProjects) = c.total
            ELSE /\ saved \cup failed = passed /\ saved \cap failed = {}
                 /\ c.saved = Cardinality(saved)
                 /\ c.errored = Cardinality(thrown) + Cardinality(failed)
                 /\ c.saved + c.skipped + c.errored = c.total

\* a non-dry run has returned with each counter above zero, errored
\* counting a thrown extraction and a rejected upsert
C26_Witness ==
  /\ runs["A"].pc = "done" /\ NonDry(runs["A"])
  /\ runs["A"].result = [saved |-> 1, skipped |-> 1, errored |-> 2, total |-> 4]
  /\ PathsMarked(runs["A"], {"error"}) # {}
  /\ PathsMarked(runs["A"], {"save failed"}) # {}

\* C25: on a listing with several active filters, the dismiss link of
\* one pill carries every other active filter, the search text
\* included, and the sort key and direction of the listing, and does
\* not carry the filter of the pill.
C25_DismissDropsOneFilter ==
  (call.op = "pills" /\ Cardinality(DOMAIN ret.links) >= 2) =>
    LET params == RouteParams(call.query)
    IN \A k \in DOMAIN ret.links :
         \A d \in FilterDims \cup {"sort", "direction"} :
           ret.links[k][d] = IF d = k THEN Null ELSE params[d]

\* C27: the totalCount that queryProjects returns is the number of rows
\* that matched the predicate in the table from which the page was
\* read, also when a write commits between the two queries.
C27_CountOfThePageState ==
  \A q \in ReqIds :
    (reqs[q].op = "list" /\ reqs[q].pc = "done") => reqs[q].totalCount = reqs[q].matched

PinsDone(id) ==
  {q \in ReqIds : reqs[q].op = "pin" /\ reqs[q].pc = "done" /\ reqs[q].code = 302
                  /\ reqs[q].id = id}

\* C28: when no pin request on a record is between its read and its
\* write, the pinned flag of the record is its first value if and only
\* if the number of completed pin requests on it is even, and every
\* other column of every record is as it was.
C28_PinFlipsOncePerRequest ==
  \A k \in DOMAIN StoredBefore :
    (\A q \in ReqIds : ~(reqs[q].pc = "update" /\ reqs[q].id = StoredBefore[k].id)) =>
      /\ (store[k].pinned = StoredBefore[k].pinned)
           <=> (Cardinality(PinsDone(StoredBefore[k].id)) % 2 = 0)
      /\ store[k] = [StoredBefore[k] EXCEPT !.pinned = store[k].pinned]

ListDone(q) == reqs[q].op = "list" /\ reqs[q].pc = "done"

PageOf(q) == RouteParams(reqs[q].query).page

\* the ids of the rows that match the filters of a query string
MatchingIds(query) ==
  {store[i].id : i \in WhereRows(Conditions(RouteParams(query)), store, now)}

SelectedBy(row, t) == {s \in FiveStatuses : statusCondition(s, row, t) = "true"}

\* C30: at any instant every stored record is selected by exactly one
\* of the five status predicates active, recent, paused, wip, deployed.
C30_StatusPredicatesPartition ==
  \A i \in DOMAIN store : Cardinality(SelectedBy(store[i], now)) = 1

====
